---- MODULE Spec2Model ----
(***************************************************************************)
(* The Speedtest application in nine specifications.                       *)
(*                                                                         *)
(* Spec: the connectivity monitor, that is the period store of db.py and   *)
(* connectivity_loop of scheduler.py with its sample buffer, outage marker *)
(* and notification threshold.  Time is counted in ticks of                *)
(* 1/TicksPerSecond second, and one tick passes from one sample to the     *)
(* next: the wall clock is taken to move forward between two samples       *)
(* (every round of the loop awaits a probe and sleeps at least 1 ms).      *)
(*                                                                         *)
(* SpecAligner: _seconds_until_next_aligned and a loop that sleeps by it,  *)
(* with time in units of half a millisecond.                               *)
(*                                                                         *)
(* SpecSpeed: run_speedtest_once under the lock of runtime.py, called by   *)
(* speedtest_loop and by the run-now tasks of main.py, with the strategies *)
(* of speedtest.py and ookla_speedtest.py.  The tasks share one event      *)
(* loop: a task runs from one await point to the next without another task *)
(* in between, while api_status reads the runtime from a worker thread at  *)
(* any point.                                                              *)
(*                                                                         *)
(* SpecSettings: the settings connectivity_loop reads at the top of a      *)
(* tick, from stored text to the clamped value.                            *)
(*                                                                         *)
(* SpecQuery: query_connectivity_periods behind api_outages, over periods  *)
(* written by record_connectivity.                                         *)
(*                                                                         *)
(* SpecReconf: the interval a loop reads at the start of each tick while   *)
(* the setting changes between and during its sleeps.                      *)
(*                                                                         *)
(* SpecStop: connectivity_loop and speedtest_loop as the two tasks of one  *)
(* event loop until _shutdown stops them, with weak fairness on the steps  *)
(* of each task.                                                           *)
(*                                                                         *)
(* SpecBuffer: connectivity_loop from its start to its end while a request *)
(* changes the two buffer settings.                                        *)
(*                                                                         *)
(* SpecLock: speedtest_loop and the run-now tasks taking the lock of       *)
(* runtime.py in turn, with weak fairness on the steps of each task.       *)
(***************************************************************************)
EXTENDS Integers, Sequences, FiniteSets, TLC

\* ---------------------------------------------------------------- bounds
\* the clock stops at MaxTime ticks
MaxTime == 4
\* restarts, setting changes and API reads in one behaviour, together
MaxEvents == 1

\* requests that change the buffer settings while the monitor runs
MaxSettingChanges == 1

\* clock resolution of the model: ticks per second
TicksPerSecond == 2

\* values the settings connectivity_check_buffer_max / _seconds take
BufferMaxValues == {1, 2, 3}
BufferSecondsValues == {0, 1, 50}

\* cfg.smtp_min_outage_seconds (seconds)
smtp_min_outage_seconds == 1

\* ------------------------------------------------------------- time_utils
\* SQL NULL / Python None for a text value
NULL == <<>>

\* to_iso_z: isoformat() prints the fraction only when it is not zero
to_iso_z(t) ==
  IF t % TicksPerSecond = 0 THEN <<t \div TicksPerSecond>>
  ELSE <<t \div TicksPerSecond, t % TicksPerSecond>>

\* parse_dt: the instant an ISO text denotes
parse_dt(s) ==
  s[1] * TicksPerSecond + (IF Len(s) > 1 THEN s[2] ELSE 0)

\* to_local_display: local time cut to whole seconds
to_local_display(t) == t \div TicksPerSecond

\* -------------------------------------------------------------------- db
\* the row get_current_connectivity_period returns when there is none
NoRow == [id |-> 0, started_at |-> NULL, ended_at |-> NULL, is_up |-> 0]

Max(S) == CHOOSE x \in S : \A y \in S : y <= x

OpenIds(ps) == {i \in DOMAIN ps : ps[i].ended_at = NULL}

\* SELECT ... WHERE ended_at IS NULL ORDER BY id DESC LIMIT 1
get_current_connectivity_period(ps) ==
  IF OpenIds(ps) = {} THEN NoRow ELSE ps[Max(OpenIds(ps))]

\* mutant: the new period is inserted already closed
InsertPeriod_Closed(ps, now_iso_, is_up_) ==
  Append(ps, [id |-> Len(ps) + 1, started_at |-> now_iso_,
              ended_at |-> now_iso_, is_up |-> IF is_up_ THEN 1 ELSE 0])

\* INSERT INTO connectivity_periods(started_at, ended_at, is_up)
InsertPeriod(ps, now_iso_, is_up_) ==
  Append(ps, [id |-> Len(ps) + 1, started_at |-> now_iso_,
              ended_at |-> NULL, is_up |-> IF is_up_ THEN 1 ELSE 0])

\* mutant: the closing UPDATE is forgotten
ClosePeriod_Forgotten(ps, id_, now_iso_) == ps

\* mutant: the UPDATE has no WHERE clause
ClosePeriod_EveryRow(ps, id_, now_iso_) ==
  [i \in DOMAIN ps |-> [ps[i] EXCEPT !.ended_at = now_iso_]]

\* UPDATE connectivity_periods SET ended_at = ? WHERE id = ?
ClosePeriod(ps, id_, now_iso_) ==
  [ps EXCEPT ![id_].ended_at = now_iso_]

\* mutant: the same-state early return is missing
RcBranch_NoReturn(ps, is_up_) ==
  IF get_current_connectivity_period(ps).id = 0 THEN "insert" ELSE "update"

\* mutant: an open period is kept whatever the sample says
RcBranch_KeepsOpen(ps, is_up_) ==
  IF get_current_connectivity_period(ps).id = 0 THEN "insert" ELSE "return"

\* what record_connectivity does up to and including its first write:
\* "insert" (no open period), "return" (same state), "update" (flip)
RcBranch(ps, is_up_) ==
  LET current == get_current_connectivity_period(ps) IN
  IF current.id = 0 THEN "insert"
  ELSE IF (current.is_up = 1) = is_up_ THEN "return"
  ELSE "update"

\* record_connectivity_checks_batch: append-only bulk insert
record_connectivity_checks_batch(cs, batch) == cs \o batch

\* record_connectivity_check: insert of one sample
record_connectivity_check(cs, is_up_, checked_at_iso) ==
  Append(cs, <<checked_at_iso, is_up_>>)

\* -------------------------------------------------------------- scheduler
None == <<>>
Some(b) == <<b>>

\* lines 145-150: the state adopted from the store when the loop starts
InitLastIsUp(ps) ==
  LET current_period == get_current_connectivity_period(ps) IN
  IF current_period.id = 0 THEN None ELSE Some(current_period.is_up = 1)

\* mutant: the start of an outage in progress is not adopted
InitOutageStartedAt_NotAdopted(ps) == NULL

InitOutageStartedAt(ps) ==
  LET current_period == get_current_connectivity_period(ps) IN
  IF current_period.id # 0 /\ current_period.is_up # 1
  THEN current_period.started_at ELSE NULL

\* mutant: the sample always goes through the buffer
WriteThrough_Never(bs, bm) == FALSE

\* line 191: write-through when both thresholds are disabled
WriteThrough(bs, bm) == bs <= 0 /\ bm <= 1

\* mutant: the count threshold is compared with > instead of >=
FlushDue_Late(pend, bm, bs, mono, lastFlush) ==
  Len(pend) > bm \/ (mono - lastFlush) >= bs * TicksPerSecond

\* line 195: the flush condition after the append (bs in seconds)
FlushDue(pend, bm, bs, mono, lastFlush) ==
  Len(pend) >= bm \/ (mono - lastFlush) >= bs * TicksPerSecond

\* line 200: a state change is detected
StateChanged(last, is_up_) == last # None /\ last # Some(is_up_)

\* line 214: (outage_end_dt - outage_start_dt).total_seconds(), in ticks
OutageDuration(startIso, endIso) == parse_dt(endIso) - parse_dt(startIso)

\* mutant: the threshold is compared with > instead of >=
LongEnough_Strict(d) == d > smtp_min_outage_seconds * TicksPerSecond

\* line 216: the notification threshold
LongEnough(d) == d >= smtp_min_outage_seconds * TicksPerSecond

\* lines 211-216: the notification is to be sent at this Down->Up change
MustNotify(enabled, marker, endIso) ==
  enabled /\ marker # NULL /\ LongEnough(OutageDuration(marker, endIso))

\* mutant: the marker is moved by every Down sample
MarkerAfterSample_EveryDown(last, is_up_, marker, nowIso) ==
  IF ~is_up_ THEN nowIso ELSE marker

\* lines 200-203: the marker after an Up->Down change (kept otherwise)
MarkerAfterSample(last, is_up_, marker, nowIso) ==
  IF StateChanged(last, is_up_) /\ ~is_up_ THEN nowIso ELSE marker

VARIABLES
  \* the store (durable)
  periods, checks, set_buffer_max, set_buffer_seconds, set_connect_target,
  \* connectivity_loop (lost when the process stops)
  pc, last_is_up, outage_started_at, pending_checks, last_flush_ts,
  buffer_seconds, buffer_max, is_up, now_iso, connect_target, loop_exc,
  \* environment
  now, smtp_enabled, sent, api_current,
  \* history
  sample_ts, monState, flipDownTs, batches, fed, appended, tickStage,
  rcBefore, deliveries, usedMax,
  timeFlushed, handled, lastRc, rcRepeat, ticks, restarts, settingChanges,
  apiReads,
  \* a loop sleeping to aligned boundaries (scheduler.py 33-50)
  al_pc, al_interval, al_elapsed, al_result, al_fires,
  \* speed tests: settings and table of the store, configuration
  set_speedtest_mode, set_speedtest_url, speed_tests,
  cfg_speedtest_url, speedtest_skip_if_offline,
  \* the runtime of runtime.py and the tasks of the event loop
  lock_locked, lock_waiters, running, running_since_iso,
  task_pc, task_local, current_task, stop_set,
  \* what the API handlers returned
  api_running, run_now_started,
  \* history of the run_speedtest_once invocations
  invocations,
  \* one read of one numeric setting (scheduler.py 59-65, 154-180, 246-252)
  st_name, st_stored, st_pc, st_result,
  \* one range query on the periods (main.py 376-378, db.py 260-278)
  q_pc, q_start_iso, q_end_iso, q_is_up, q_result,
  \* one loop, its interval setting and its aligned sleep
  \* (scheduler.py 153-168 and 237, 245-256)
  cf_loop, cf_setting, cf_pc, cf_interval, cf_at_start, cf_elapsed, cf_sleep,
  cf_ticks, cf_changes, cf_run

storeVars == <<periods, checks, set_buffer_max, set_buffer_seconds,
                 set_connect_target>>
loopVars == <<pc, last_is_up, outage_started_at, pending_checks,
              last_flush_ts, buffer_seconds, buffer_max, is_up, now_iso,
                 connect_target, loop_exc>>
envVars == <<now, smtp_enabled, sent, api_current>>
histVars == <<sample_ts, monState, flipDownTs, batches, fed, appended,
              tickStage, rcBefore, deliveries,
              usedMax, timeFlushed, handled, lastRc, rcRepeat, ticks, restarts,
              settingChanges, apiReads>>
alignVars == <<al_pc, al_interval, al_elapsed, al_result, al_fires>>
speedVars == <<set_speedtest_mode, set_speedtest_url, speed_tests,
               cfg_speedtest_url, speedtest_skip_if_offline,
               lock_locked, lock_waiters, running, running_since_iso,
               task_pc, task_local, current_task, stop_set,
               api_running, run_now_started, invocations>>
settingVars == <<st_name, st_stored, st_pc, st_result>>
queryVars == <<q_pc, q_start_iso, q_end_iso, q_is_up, q_result>>
reconfVars == <<cf_loop, cf_setting, cf_pc, cf_interval, cf_at_start,
                cf_elapsed, cf_sleep, cf_ticks, cf_changes, cf_run>>
unitVars == <<settingVars, queryVars, reconfVars>>
vars == <<storeVars, loopVars, envVars, histVars, alignVars, speedVars,
          unitVars>>

\* the state of the monitor the store stands for: Unknown, Up or Down
StoreState(ps) ==
  LET c == get_current_connectivity_period(ps) IN
  IF c.id = 0 THEN "Unknown" ELSE IF c.is_up = 1 THEN "Up" ELSE "Down"

\* ------------------------------------------------- scheduler, alignment
\* the aligner counts time in units of half a millisecond
\* line 42: max(0.1, float(interval_seconds))
MinInterval == 200
\* line 48: if remainder < 0.01
BoundaryGuard == 20
\* line 50 and line 36: max(0.001, ...)
MinSleep == 2

\* intervals a loop asks for: 25 ms, 100 ms, 125 ms, 900 s
AlignIntervals == {50, 200, 250, 1800000}
\* a wake-up is on time, half a millisecond late or 12.5 ms late
LateValues == {0, 1, 25}
\* boundaries after local midnight the first call may follow
MaxBoundary == 1
\* wake-ups of the aligned loop in one behaviour
MaxFires == 2

\* mutant: no guard just after a boundary
seconds_until_next_aligned_NoGuard(interval_seconds, elapsed) ==
  LET interval == Max({MinInterval, interval_seconds}) IN
  Max({MinSleep, interval - (elapsed % interval)})

\* mutant: the result is not floored at one millisecond
seconds_until_next_aligned_NoFloor(interval_seconds, elapsed) ==
  LET interval == Max({MinInterval, interval_seconds})
      remainder == elapsed % interval IN
  IF remainder < BoundaryGuard THEN interval ELSE interval - remainder

\* lines 41-50, elapsed being the time since local midnight
seconds_until_next_aligned(interval_seconds, elapsed) ==
  LET interval == Max({MinInterval, interval_seconds})
      remainder == elapsed % interval IN
  IF remainder < BoundaryGuard THEN interval
  ELSE Max({MinSleep, interval - remainder})

\* offsets from a boundary at which the first call may happen
AlignOffsets(interval) ==
  {0, 1, BoundaryGuard - 1, BoundaryGuard, BoundaryGuard + 1, interval \div 2,
   interval - BoundaryGuard - 1, interval - BoundaryGuard,
   interval - BoundaryGuard + 1, interval - MinSleep, interval - 1}

\* no aligned loop is looked at
AlignIdle ==
  /\ al_pc = "idle"
  /\ al_interval = MinInterval
  /\ al_elapsed = 0
  /\ al_result = 0
  /\ al_fires = 0

\* ------------------------------------------------ speedtest, the strategies
\* values of the setting speedtest_mode (main.py 294)
ModeValues == {"url", "speedtest.net", "speedtest.pl"}
\* scheduler.py 82
OoklaModes == {"speedtest.net", "speedtest.pl"}
\* values of the setting speedtest_url and of cfg.speedtest_url
UrlValues == {"", "http://host/file", "ftp://host/file", "ftp://host:abc/file",
              "ftp:///file", "mailto:a", "http://[::1"}
CfgUrlValues == {"", "http://host/file"}

\* urllib.parse.urlparse on these texts: it raises ValueError on an
\* unclosed IPv6 bracket, and the port property raises on a non-numeric port
urlparse(url) ==
  CASE url = "http://[::1" ->
         [raises |-> TRUE, scheme |-> "", hostname |-> "", port_raises |-> FALSE]
    [] url = "http://host/file" ->
         [raises |-> FALSE, scheme |-> "http", hostname |-> "host", port_raises |-> FALSE]
    [] url = "ftp://host/file" ->
         [raises |-> FALSE, scheme |-> "ftp", hostname |-> "host", port_raises |-> FALSE]
    [] url = "ftp://host:abc/file" ->
         [raises |-> FALSE, scheme |-> "ftp", hostname |-> "host", port_raises |-> TRUE]
    [] url = "http://host:abc/" ->
         [raises |-> FALSE, scheme |-> "http", hostname |-> "host", port_raises |-> TRUE]
    [] url = "ftp:///file" ->
         [raises |-> FALSE, scheme |-> "ftp", hostname |-> "", port_raises |-> FALSE]
    [] url = "mailto:a" ->
         [raises |-> FALSE, scheme |-> "mailto", hostname |-> "", port_raises |-> FALSE]
    [] OTHER ->
         [raises |-> FALSE, scheme |-> "", hostname |-> "", port_raises |-> FALSE]

\* speedtest.py 20-23, bytes and milliseconds to Mbit/s
calc_mbps(bytes_downloaded, duration_ms) ==
  IF duration_ms <= 0 THEN 0
  ELSE ((bytes_downloaded * 8) \div duration_ms) \div 1000

\* an exception leaves the strategy
Raised ==
  [raised |-> TRUE, error |-> None, bytes_downloaded |-> 0,
   duration_seconds |-> 0, mbps |-> 0]

SpeedTestResult(duration_ms, bytes_downloaded, mbps, error) ==
  [raised |-> FALSE, error |-> error, bytes_downloaded |-> bytes_downloaded,
   duration_seconds |-> duration_ms, mbps |-> mbps]

\* speedtest.py 26-55 and 74-131: the transfer ends well, or an exception
\* is caught and the bytes received until then are kept
DownloadResults ==
  {SpeedTestResult(1000, 1000000, calc_mbps(1000000, 1000), None),
   SpeedTestResult(1000, 1000000, calc_mbps(1000000, 1000), Some("read timeout")),
   SpeedTestResult(1, 0, calc_mbps(0, 1), Some("connect failed"))}

\* speedtest.py 58-72: what _download_ftp does before its try block
download_ftp(url) ==
  LET parsed == urlparse(url) IN
  IF parsed.hostname = ""
  THEN {SpeedTestResult(1, 0, 0, Some("Invalid FTP URL (missing hostname)"))}
  ELSE IF parsed.port_raises THEN {Raised}
  ELSE DownloadResults

\* speedtest.py 134-140: the outcomes run_speed_test can have
run_speed_test(url) ==
  LET parsed == urlparse(url) IN
  IF parsed.raises THEN {Raised}
  ELSE IF parsed.scheme \in {"http", "https"} THEN DownloadResults
  ELSE IF parsed.scheme = "ftp" THEN download_ftp(url)
  ELSE {SpeedTestResult(1, 0, 0, Some("Unsupported URL scheme"))}

\* ookla_speedtest.py 30-66: the whole body is inside try/except
run_ookla ==
  {SpeedTestResult(1000, 0, 8, None),
   SpeedTestResult(1000, 0, 0, Some("ConfigRetrievalError"))}

\* mutant: the new record takes the place of the table's rows
record_speed_test_Replaces(tbl, started_at_iso, duration_seconds, bytes_downloaded, mbps, error, speedtest_mode) ==
  <<[id |-> 1, started_at |-> started_at_iso,
     duration_seconds |-> duration_seconds,
     bytes_downloaded |-> bytes_downloaded, mbps |-> mbps,
     error |-> error, speedtest_mode |-> speedtest_mode]>>

\* db.py 188-222: INSERT INTO speed_tests
record_speed_test(tbl, started_at_iso, duration_seconds, bytes_downloaded, mbps, error, speedtest_mode) ==
  Append(tbl, [id |-> Len(tbl) + 1, started_at |-> started_at_iso,
               duration_seconds |-> duration_seconds,
               bytes_downloaded |-> bytes_downloaded, mbps |-> mbps,
               error |-> error, speedtest_mode |-> speedtest_mode])

\* db.py 155-185, the whole call
record_connectivity(ps, now_iso_, is_up_) ==
  LET branch == RcBranch(ps, is_up_)
      current == get_current_connectivity_period(ps) IN
  CASE branch = "insert" -> InsertPeriod(ps, now_iso_, is_up_)
    [] branch = "return" -> ps
    [] OTHER -> InsertPeriod(ClosePeriod(ps, current.id, now_iso_), now_iso_, is_up_)

\* ------------------------------------------------- scheduler, speed tests
\* run-now requests in one behaviour
MaxManual == 2
\* run-now requests, rounds of speedtest_loop, samples of the monitor,
\* api_status reads and the shutdown in one behaviour, together
MaxSpeedEvents == 3

\* task 0 is speedtest_loop, tasks 1..MaxManual are the run-now tasks
LoopTask == 0
ManualTasks == 1..MaxManual
Tasks == {LoopTask} \cup ManualTasks

\* mutant: the compiled-in URL is not looked at
EffectiveUrl_SettingOnly(setting, cfg_url) == setting

\* scheduler.py 61
EffectiveUrl(setting, cfg_url) == IF setting # "" THEN setting ELSE cfg_url

\* mutant: a store without an open period counts as offline
SkipIfOffline_NoPeriod(policy, ps) ==
  policy /\ get_current_connectivity_period(ps).is_up # 1

\* scheduler.py 75-77
SkipIfOffline(policy, ps) ==
  LET current == get_current_connectivity_period(ps) IN
  policy /\ current.id # 0 /\ current.is_up # 1

\* mutant: acquire takes the lock whatever its state
LockFree_Always(locked, waiters) == TRUE

\* asyncio.Lock.acquire: the lock is taken at once when it is not held and
\* nobody waits for it
LockFree(locked, waiters) == ~locked /\ waiters = <<>>

\* the locals of a run_speedtest_once invocation before its body has run
NoLocals ==
  [inv |-> 0, speedtest_mode |-> "", speedtest_url |-> "",
   started_at_iso |-> NULL, exc |-> "none"]

\* nothing read by api_status yet
NotRead == [read |-> FALSE, running |-> FALSE, running_since_iso |-> NULL]

\* no speed test is looked at
SpeedIdle ==
  /\ set_speedtest_mode = "url"
  /\ set_speedtest_url = ""
  /\ speed_tests = <<>>
  /\ cfg_speedtest_url = ""
  /\ speedtest_skip_if_offline = TRUE
  /\ lock_locked = FALSE
  /\ lock_waiters = <<>>
  /\ running = FALSE
  /\ running_since_iso = NULL
  /\ task_pc = [t \in Tasks |-> IF t = LoopTask THEN "top" ELSE "none"]
  /\ task_local = [t \in Tasks |-> NoLocals]
  /\ current_task = {}
  /\ stop_set = FALSE
  /\ api_running = NotRead
  /\ run_now_started = <<>>
  /\ invocations = <<>>

\* ------------------------------------------------- scheduler, the settings
\* numbers are counted in thousandths; a Python float is finite, nan or inf,
\* and a text that float() or int() rejects gives ValueError
Finite(milli) == [kind |-> "finite", milli |-> milli]
NaN == [kind |-> "nan", milli |-> 0]
Inf == [kind |-> "inf", milli |-> 0]
ValueError == [kind |-> "ValueError", milli |-> 0]

\* texts the settings table can hold (value TEXT NOT NULL, db.py 120-130)
SettingTexts ==
  {"5", "0", "-1", "2.5", " 7 ", "1e3", "nan", "inf", "abc", ""}

\* float(text)
py_float(text) ==
  CASE text = "5" -> Finite(5000)
    [] text = "0" -> Finite(0)
    [] text = "-1" -> Finite(-1000)
    [] text = "2.5" -> Finite(2500)
    [] text = " 7 " -> Finite(7000)
    [] text = "1e3" -> Finite(1000000)
    [] text = "nan" -> NaN
    [] text = "inf" -> Inf
    [] OTHER -> ValueError

\* int(text): no fraction, no exponent, no nan, no inf
py_int(text) ==
  CASE text = "5" -> Finite(5000)
    [] text = "0" -> Finite(0)
    [] text = "-1" -> Finite(-1000)
    [] text = " 7 " -> Finite(7000)
    [] OTHER -> ValueError

\* b > a as Python compares floats: false when either is nan
py_greater(b, a) ==
  CASE b.kind = "nan" \/ a.kind = "nan" -> FALSE
    [] b.kind = "inf" -> a.kind # "inf"
    [] a.kind = "inf" -> FALSE
    [] OTHER -> b.milli > a.milli

\* max(a, b): the first argument unless the second is greater
py_max(a, b) == IF py_greater(b, a) THEN b ELSE a

\* the five numeric settings the loops read
SettingNames ==
  {"connect_interval_seconds", "connectivity_check_buffer_seconds",
   "connectivity_check_buffer_max", "speedtest_interval_seconds",
   "speedtest_duration_seconds"}

\* config.py 22-28: the compiled defaults, in thousandths
CfgDefault(name) ==
  CASE name = "connect_interval_seconds" -> Finite(5000)
    [] name = "connectivity_check_buffer_seconds" -> Finite(600000)
    [] name = "connectivity_check_buffer_max" -> Finite(300000)
    [] name = "speedtest_interval_seconds" -> Finite(900000)
    [] OTHER -> Finite(10000)

\* scheduler.py 164, 169, 175, 248, 63: float() or int()
ParseSetting(name, text) ==
  IF name = "connectivity_check_buffer_max" THEN py_int(text)
  ELSE py_float(text)

\* scheduler.py 168, 179, 180, 251: the floor applied after the read
ClampSetting(name, v) ==
  CASE name = "connect_interval_seconds" -> py_max(Finite(100), v)
    [] name = "connectivity_check_buffer_seconds" -> py_max(Finite(0), v)
    [] name = "connectivity_check_buffer_max" -> py_max(Finite(1000), v)
    [] name = "speedtest_interval_seconds" -> py_max(Finite(1000), v)
    [] OTHER -> v

\* mutant: the ValueError of the conversion is not caught
read_setting_Uncaught(name, stored) ==
  LET parsed == IF stored = None THEN CfgDefault(name)
                ELSE ParseSetting(name, stored[1]) IN
  IF parsed.kind = "ValueError"
  THEN [raised |-> TRUE, value |-> parsed]
  ELSE [raised |-> FALSE, value |-> ClampSetting(name, parsed)]

\* values.get(key, str(cfg.x)) converted inside try / except ValueError,
\* then floored; stored is None when the table has no row for the key
read_setting(name, stored) ==
  LET parsed == IF stored = None THEN CfgDefault(name)
                ELSE ParseSetting(name, stored[1])
      value == IF parsed.kind = "ValueError" THEN CfgDefault(name)
               ELSE parsed IN
  [raised |-> FALSE, value |-> ClampSetting(name, value)]

\* no setting is being read
SettingsIdle ==
  /\ st_name = ""
  /\ st_stored = None
  /\ st_pc = "idle"
  /\ st_result = [raised |-> FALSE, value |-> Finite(0)]

\* ------------------------------------------------------ db, range queries
\* SQLite compares TEXT byte by byte: in the texts of to_iso_z the seconds
\* are followed by "." and the fraction, or by "Z", and "." sorts first
TextLess(a, b) ==
  \/ a[1] < b[1]
  \/ /\ a[1] = b[1]
     /\ Len(a) = 2
     /\ Len(b) = 1 \/ a[2] < b[2]

\* time_utils.py 59-64 on two instants: swapped when start > end
parse_range(from_q, to_q) ==
  IF from_q > to_q THEN [start |-> to_q, end |-> from_q]
  ELSE [start |-> from_q, end |-> to_q]

\* main.py 377: the window as two texts
TimeRange(pr) == [start_iso |-> to_iso_z(pr.start), end_iso |-> to_iso_z(pr.end)]

\* db.py 260-278, the WHERE clause: ids of the rows selected
SelectedIds(ps, tr, is_up_) ==
  {i \in DOMAIN ps :
     /\ TextLess(ps[i].started_at, tr.end_iso)
     /\ ps[i].ended_at = NULL \/ TextLess(tr.start_iso, ps[i].ended_at)
     /\ is_up_ = None \/ ps[i].is_up = (IF is_up_[1] THEN 1 ELSE 0)}

\* db.py 260-278: the selected rows in ORDER BY started_at ASC
query_connectivity_periods(ps, tr, is_up_) ==
  LET ids == SelectedIds(ps, tr, is_up_)
      order == CHOOSE f \in [1..Cardinality(ids) -> ids] :
                 /\ \A k, l \in DOMAIN f : k # l => f[k] # f[l]
                 /\ \A k, l \in DOMAIN f :
                      k < l => ~TextLess(ps[f[l]].started_at, ps[f[k]].started_at)
  IN [k \in 1..Cardinality(ids) |->
        [started_at |-> ps[order[k]].started_at,
         ended_at |-> ps[order[k]].ended_at, is_up |-> ps[order[k]].is_up]]

\* no query is being answered
QueryIdle ==
  /\ q_pc = "idle"
  /\ q_start_iso = NULL
  /\ q_end_iso = NULL
  /\ q_is_up = None
  /\ q_result = <<>>

\* -------------------------------------------- scheduler, the interval read
\* ticks of the loop and changes of its setting in one behaviour
MaxRounds == 2

\* texts of the interval setting: 5 s, 2.5 s, below every floor, no number
IntervalTexts == {"5", "2.5", "0", "abc"}

\* scheduler.py 164 and 247: the setting each loop reads its interval from
IntervalSetting(loop) ==
  IF loop = "connectivity_loop" THEN "connect_interval_seconds"
  ELSE "speedtest_interval_seconds"

\* thousandths of a second in the half milliseconds of the aligner
HalfMillis(v) == 2 * v.milli

\* no tick has followed a sleep yet
NoRun == [done |-> 0, interval |-> 0, late |-> 0, at |-> 0]

\* neither loop is modelled
ReconfIdle ==
  /\ cf_loop = ""
  /\ cf_setting = ""
  /\ cf_pc = "idle"
  /\ cf_interval = Finite(0)
  /\ cf_at_start = ""
  /\ cf_elapsed = 0
  /\ cf_sleep = 0
  /\ cf_ticks = 0
  /\ cf_changes = 0
  /\ cf_run = NoRun

UnitIdle == SettingsIdle /\ QueryIdle /\ ReconfIdle

\* ------------------------------------------------------------ connectivity
\* config.py 20: CONNECT_DEFAULT_PORT
connect_default_port == 443

\* values of the setting connect_target (main.py 189: any text of 1..1024
\* characters, stored stripped): a host name, a URL whose port is not a
\* number, a host name with an empty label
TargetValues == {"google.com", "http://host:abc/", "a..b"}

\* connectivity.py 12: "://" in t
HasSchemeSeparator(t) ==
  t \in {"http://host:abc/", "http://host/file", "ftp://host/file",
         "ftp://host:abc/file", "ftp:///file", "http://[::1"}

\* connectivity.py 7-27; urlparse (line 13) and parsed.port (line 17) raise
\* ValueError, and no handler is around them
resolve_target(target, default_port) ==
  IF target = ""
  THEN [raised |-> "", host |-> "google.com", port |-> default_port]
  ELSE IF HasSchemeSeparator(target)
  THEN LET parsed == urlparse(target) IN
       IF parsed.raises \/ (parsed.hostname # "" /\ parsed.port_raises)
       THEN [raised |-> "ValueError", host |-> "", port |-> 0]
       ELSE IF parsed.hostname = ""
       THEN [raised |-> "", host |-> target, port |-> default_port]
       ELSE IF parsed.scheme = "https"
       THEN [raised |-> "", host |-> parsed.hostname, port |-> 443]
       ELSE IF parsed.scheme = "http"
       THEN [raised |-> "", host |-> parsed.hostname, port |-> 80]
       ELSE [raised |-> "", host |-> parsed.hostname, port |-> default_port]
  ELSE [raised |-> "", host |-> target, port |-> default_port]

\* socket.create_connection on this host: it connects, it fails with an
\* OSError (no route, refused, timeout, unknown name), or the IDNA encoding
\* of the name fails with UnicodeError (a ValueError, not an OSError)
ConnectOutcomes(host) ==
  IF host = "a..b" THEN {"UnicodeError"} ELSE {"connected", "OSError"}

\* connectivity.py 30-35: except OSError only
tcp_connectivity_check(outcome) ==
  CASE outcome = "connected" -> [raised |-> "", value |-> TRUE]
    [] outcome = "OSError" -> [raised |-> "", value |-> FALSE]
    [] OTHER -> [raised |-> outcome, value |-> FALSE]

\* connectivity.py 38-40: what one call of check_target can give
check_target(target, default_port) ==
  LET r == resolve_target(target, default_port) IN
  IF r.raised # "" THEN {[raised |-> r.raised, value |-> FALSE]}
  ELSE {tcp_connectivity_check(o) : o \in ConnectOutcomes(r.host)}

\* email_notify.py 84-91: what the SMTP conversation can do
SmtpOutcomes == {"sent", "SMTPException", "OSError"}

\* mutant: an SMTP error leaves _send_email
send_email_Uncaught(outcome) ==
  IF outcome = "sent" THEN [raised |-> "", value |-> TRUE]
  ELSE [raised |-> outcome, value |-> FALSE]

\* email_notify.py 66-98: True, or False after except Exception
send_email(outcome) ==
  IF outcome = "sent" THEN [raised |-> "", value |-> TRUE]
  ELSE [raised |-> "", value |-> FALSE]

\* email_notify.py 28-63, called with smtp_enabled true (scheduler.py 211)
send_outage_notification(outcome) == send_email(outcome)

\* no exception has left the body of connectivity_loop
NoException == ""

InitConnectivity ==
  /\ periods = <<>>
  /\ checks = <<>>
  /\ set_buffer_max \in BufferMaxValues
  /\ set_buffer_seconds \in BufferSecondsValues
  /\ set_connect_target \in TargetValues
  /\ connect_target = ""
  /\ loop_exc = NoException
  /\ tickStage = <<>>
  /\ rcBefore = <<>>
  /\ deliveries = <<>>
  /\ pc = "init"
  /\ last_is_up = None
  /\ outage_started_at = NULL
  /\ pending_checks = <<>>
  /\ last_flush_ts = 0
  /\ buffer_seconds = 0
  /\ buffer_max = 1
  /\ is_up = FALSE
  /\ now_iso = NULL
  /\ now = 0
  /\ smtp_enabled \in BOOLEAN
  /\ sent = <<>>
  /\ api_current = NoRow
  /\ sample_ts = 0
  /\ monState = "Unknown"
  /\ flipDownTs = -1
  /\ batches = <<>>
  /\ fed = 0
  /\ appended = <<>>
  /\ usedMax = {}
  /\ timeFlushed = FALSE
  /\ handled = <<>>
  /\ lastRc = None
  /\ rcRepeat = FALSE
  /\ ticks = 0
  /\ restarts = 0
  /\ settingChanges = 0
  /\ apiReads = 0

Init == InitConnectivity /\ AlignIdle /\ SpeedIdle /\ UnitIdle

\* ------------------------------------------------------ connectivity_loop
\* lines 132-150: locals, then the state adopted from the store
Start ==
  /\ pc = "init"
  /\ last_is_up' = InitLastIsUp(periods)
  /\ outage_started_at' = InitOutageStartedAt(periods)
  /\ pending_checks' = <<>>
  /\ last_flush_ts' = now
  /\ pc' = "top"
  /\ UNCHANGED <<buffer_seconds, buffer_max, is_up, now_iso, connect_target, loop_exc>>
  /\ UNCHANGED <<storeVars, envVars, histVars>>
  /\ UNCHANGED <<alignVars, speedVars, unitVars>>

\* lines 153-180: the settings are read again on every tick
ReadSettings ==
  /\ pc = "top"
  /\ buffer_seconds' = IF set_buffer_seconds > 0 THEN set_buffer_seconds ELSE 0
  /\ buffer_max' = IF set_buffer_max > 1 THEN set_buffer_max ELSE 1
  /\ usedMax' = usedMax \cup {buffer_max'}
  /\ connect_target' = set_connect_target
  /\ pc' = "probe"
  /\ UNCHANGED <<last_is_up, outage_started_at, pending_checks,
                 last_flush_ts, is_up, now_iso, loop_exc>>
  /\ UNCHANGED <<storeVars, envVars>>
  /\ UNCHANGED <<sample_ts, monState, flipDownTs, batches, fed, appended,
                 tickStage, rcBefore, deliveries, timeFlushed,
                 handled, lastRc, rcRepeat, ticks, restarts, settingChanges,
                 apiReads>>
  /\ UNCHANGED <<alignVars, speedVars, unitVars>>

\* lines 182-190: the probe returns, the sample is stamped
Probe ==
  /\ pc = "probe"
  /\ \E r \in check_target(connect_target, connect_default_port) :
       IF r.raised = NoException
       THEN /\ now < MaxTime
            /\ now' = now + 1
            /\ sample_ts' = now'
            /\ now_iso' = to_iso_z(sample_ts')
            /\ is_up' = r.value
            /\ ticks' = ticks + 1
            /\ tickStage' = <<"probe">>
            /\ pc' = "write"
            /\ UNCHANGED loop_exc
       ELSE /\ loop_exc' = r.raised
            /\ tickStage' = <<>>
            /\ pc' = "finally"
            /\ UNCHANGED <<now, sample_ts, now_iso, is_up, ticks>>
  /\ UNCHANGED <<last_is_up, outage_started_at, pending_checks,
                 last_flush_ts, buffer_seconds, buffer_max, connect_target>>
  /\ UNCHANGED <<storeVars, smtp_enabled, sent, api_current>>
  /\ UNCHANGED <<monState, flipDownTs, batches, fed, appended,
                 rcBefore, deliveries, usedMax, timeFlushed,
                 handled, lastRc, rcRepeat, restarts, settingChanges,
                 apiReads>>
  /\ UNCHANGED <<alignVars, speedVars, unitVars>>

\* mutant: the flush writes the batch and keeps it in the buffer
WriteSample_KeepsBatch ==
  /\ pc = "write"
  /\ IF WriteThrough(buffer_seconds, buffer_max)
     THEN /\ checks' = record_connectivity_check(checks, is_up, now_iso)
          /\ UNCHANGED <<pending_checks, last_flush_ts, batches, fed,
                         appended, timeFlushed>>
     ELSE LET pend == Append(pending_checks, <<now_iso, is_up>>) IN
          /\ fed' = fed + 1
          /\ appended' = Append(appended, <<now_iso, is_up>>)
          /\ timeFlushed' =
               (timeFlushed \/ (now - last_flush_ts) >= buffer_seconds * TicksPerSecond)
          /\ IF FlushDue(pend, buffer_max, buffer_seconds, now, last_flush_ts)
             THEN /\ checks' = record_connectivity_checks_batch(checks, pend)
                  /\ pending_checks' = pend
                  /\ last_flush_ts' = now
                  /\ batches' = Append(batches, Len(pend))
             ELSE /\ pending_checks' = pend
                  /\ UNCHANGED <<checks, last_flush_ts, batches>>
  /\ tickStage' = Append(tickStage, "sample")
  /\ pc' = "rc"
  /\ UNCHANGED <<rcBefore, deliveries>>
  /\ UNCHANGED <<periods, set_buffer_max, set_buffer_seconds,
                 set_connect_target>>
  /\ UNCHANGED <<last_is_up, outage_started_at, buffer_seconds, buffer_max,
                 is_up, now_iso, connect_target, loop_exc>>
  /\ UNCHANGED envVars
  /\ UNCHANGED <<sample_ts, monState, flipDownTs, usedMax, handled, lastRc,
                 rcRepeat, ticks, restarts, settingChanges, apiReads>>
  /\ UNCHANGED <<alignVars, speedVars, unitVars>>

\* lines 191-196: write-through, or append and flush when due
WriteSample ==
  /\ pc = "write"
  /\ IF WriteThrough(buffer_seconds, buffer_max)
     THEN /\ checks' = record_connectivity_check(checks, is_up, now_iso)
          /\ UNCHANGED <<pending_checks, last_flush_ts, batches, fed,
                         appended, timeFlushed>>
     ELSE LET pend == Append(pending_checks, <<now_iso, is_up>>) IN
          /\ fed' = fed + 1
          /\ appended' = Append(appended, <<now_iso, is_up>>)
          /\ timeFlushed' =
               (timeFlushed \/ (now - last_flush_ts) >= buffer_seconds * TicksPerSecond)
          /\ IF FlushDue(pend, buffer_max, buffer_seconds, now, last_flush_ts)
             THEN /\ checks' = record_connectivity_checks_batch(checks, pend)
                  /\ pending_checks' = <<>>
                  /\ last_flush_ts' = now
                  /\ batches' = Append(batches, Len(pend))
             ELSE /\ pending_checks' = pend
                  /\ UNCHANGED <<checks, last_flush_ts, batches>>
  /\ tickStage' = Append(tickStage, "sample")
  /\ pc' = "rc"
  /\ UNCHANGED <<rcBefore, deliveries>>
  /\ UNCHANGED <<periods, set_buffer_max, set_buffer_seconds,
                 set_connect_target>>
  /\ UNCHANGED <<last_is_up, outage_started_at, buffer_seconds, buffer_max,
                 is_up, now_iso, connect_target, loop_exc>>
  /\ UNCHANGED envVars
  /\ UNCHANGED <<sample_ts, monState, flipDownTs, usedMax, handled, lastRc,
                 rcRepeat, ticks, restarts, settingChanges, apiReads>>
  /\ UNCHANGED <<alignVars, speedVars, unitVars>>

\* db.py 155-181: record_connectivity up to and including its first write
RecordConnectivity ==
  /\ pc = "rc"
  /\ LET branch == RcBranch(periods, is_up)
         current == get_current_connectivity_period(periods) IN
     /\ periods' = CASE branch = "insert" -> InsertPeriod(periods, now_iso, is_up)
                     [] branch = "return" -> periods
                     [] OTHER -> ClosePeriod(periods, current.id, now_iso)
     /\ pc' = IF branch = "update" THEN "rc_insert" ELSE "detect"
     /\ lastRc' = IF branch = "update" THEN None ELSE Some(is_up)
     /\ tickStage' = IF branch = "update" THEN tickStage
                     ELSE Append(tickStage, "period")
  /\ rcBefore' = periods
  /\ rcRepeat' = (lastRc = Some(is_up))
  /\ handled' = IF monState = "Down" /\ is_up
                THEN <<[start |-> flipDownTs, end |-> sample_ts]>> ELSE <<>>
  /\ monState' = IF is_up THEN "Up" ELSE "Down"
  /\ flipDownTs' = IF ~is_up /\ monState # "Down" THEN sample_ts ELSE flipDownTs
  /\ UNCHANGED <<checks, set_buffer_max, set_buffer_seconds,
                 set_connect_target>>
  /\ UNCHANGED <<last_is_up, outage_started_at, pending_checks,
                 last_flush_ts, buffer_seconds, buffer_max, is_up, now_iso,
                 connect_target, loop_exc>>
  /\ UNCHANGED envVars
  /\ UNCHANGED <<sample_ts, batches, fed, appended, deliveries, usedMax,
                 timeFlushed, ticks, restarts, settingChanges, apiReads>>
  /\ UNCHANGED <<alignVars, speedVars, unitVars>>

\* db.py 182-185: the INSERT that follows the UPDATE of a flip
RecordConnectivityInsert ==
  /\ pc = "rc_insert"
  /\ periods' = InsertPeriod(periods, now_iso, is_up)
  /\ lastRc' = Some(is_up)
  /\ tickStage' = Append(tickStage, "period")
  /\ pc' = "detect"
  /\ UNCHANGED <<checks, set_buffer_max, set_buffer_seconds,
                 set_connect_target>>
  /\ UNCHANGED <<last_is_up, outage_started_at, pending_checks,
                 last_flush_ts, buffer_seconds, buffer_max, is_up, now_iso,
                 connect_target, loop_exc>>
  /\ UNCHANGED envVars
  /\ UNCHANGED <<sample_ts, monState, flipDownTs, batches, fed, appended,
                 rcBefore, deliveries, usedMax,
                 timeFlushed, handled, rcRepeat, ticks, restarts, settingChanges,
                 apiReads>>
  /\ UNCHANGED <<alignVars, speedVars, unitVars>>

\* lines 199-234: state change detection; the notification call is awaited
DetectChange ==
  /\ pc = "detect"
  /\ IF StateChanged(last_is_up, is_up) /\ is_up
        /\ MustNotify(smtp_enabled, outage_started_at, now_iso)
     THEN /\ sent' = Append(sent,
                 [started_local |-> to_local_display(parse_dt(outage_started_at)),
                  ended_local |-> to_local_display(parse_dt(now_iso)),
                  duration |-> OutageDuration(outage_started_at, now_iso)])
          /\ tickStage' = Append(tickStage, "notify")
          /\ pc' = "send"
          /\ UNCHANGED <<last_is_up, outage_started_at>>
     ELSE /\ outage_started_at' =
               IF StateChanged(last_is_up, is_up) /\ is_up THEN NULL
               ELSE MarkerAfterSample(last_is_up, is_up, outage_started_at, now_iso)
          /\ last_is_up' = Some(is_up)
          /\ tickStage' = Append(tickStage, "update")
          /\ pc' = "sleep"
          /\ UNCHANGED sent
  /\ UNCHANGED <<pending_checks, last_flush_ts, buffer_seconds, buffer_max,
                 is_up, now_iso, connect_target, loop_exc>>
  /\ UNCHANGED <<storeVars, now, smtp_enabled, api_current>>
  /\ UNCHANGED <<sample_ts, monState, flipDownTs, batches, fed, appended,
                 rcBefore, deliveries, usedMax, timeFlushed, handled, lastRc,
                 rcRepeat, ticks, restarts, settingChanges, apiReads>>
  /\ UNCHANGED <<alignVars, speedVars, unitVars>>

\* lines 222-234: send_outage_notification returned
SendReturns ==
  /\ pc = "send"
  /\ \E o \in SmtpOutcomes :
       LET r == send_outage_notification(o) IN
       IF r.raised = NoException
       THEN /\ deliveries' = Append(deliveries, r.value)
            /\ outage_started_at' = NULL
            /\ last_is_up' = Some(is_up)
            /\ tickStage' = Append(tickStage, "update")
            /\ pc' = "sleep"
            /\ UNCHANGED loop_exc
       ELSE /\ loop_exc' = r.raised
            /\ pc' = "finally"
            /\ UNCHANGED <<deliveries, outage_started_at, last_is_up,
                           tickStage>>
  /\ UNCHANGED <<pending_checks, last_flush_ts, buffer_seconds, buffer_max,
                 is_up, now_iso, connect_target>>
  /\ UNCHANGED <<storeVars, envVars>>
  /\ UNCHANGED <<sample_ts, monState, flipDownTs, batches, fed, appended,
                 rcBefore, usedMax, timeFlushed, handled, lastRc, rcRepeat,
                 ticks, restarts, settingChanges, apiReads>>
  /\ UNCHANGED <<alignVars, speedVars, unitVars>>

\* mutant: the next tick begins while the notification is being sent
SleepTimeout_Early ==
  /\ pc \in {"sleep", "send"}
  /\ pc' = "top"
  /\ UNCHANGED <<last_is_up, outage_started_at, pending_checks,
                 last_flush_ts, buffer_seconds, buffer_max, is_up, now_iso,
                 connect_target, loop_exc>>
  /\ UNCHANGED <<storeVars, envVars, histVars>>
  /\ UNCHANGED <<alignVars, speedVars, unitVars>>

\* lines 237-239: the sleep timed out, next tick
SleepTimeout ==
  /\ pc = "sleep"
  /\ pc' = "top"
  /\ UNCHANGED <<last_is_up, outage_started_at, pending_checks,
                 last_flush_ts, buffer_seconds, buffer_max, is_up, now_iso,
                 connect_target, loop_exc>>
  /\ UNCHANGED <<storeVars, envVars, histVars>>
  /\ UNCHANGED <<alignVars, speedVars, unitVars>>

\* main.py 116-126: stop is set and the task cancelled at its await point
Shutdown ==
  /\ pc \in {"init", "probe", "send", "sleep"}
  /\ pc' = IF pc = "init" THEN "done" ELSE "finally"
  /\ UNCHANGED <<last_is_up, outage_started_at, pending_checks,
                 last_flush_ts, buffer_seconds, buffer_max, is_up, now_iso,
                 connect_target, loop_exc>>
  /\ UNCHANGED <<storeVars, envVars, histVars>>
  /\ UNCHANGED <<alignVars, speedVars, unitVars>>

\* mutant: the loop returns without the flush of its finally block
FinalFlush_Skipped ==
  /\ pc = "finally"
  /\ pc' = "done"
  /\ UNCHANGED <<storeVars, envVars, histVars>>
  /\ UNCHANGED <<last_is_up, outage_started_at, pending_checks,
                 last_flush_ts, buffer_seconds, buffer_max, is_up, now_iso,
                 connect_target, loop_exc>>
  /\ UNCHANGED <<alignVars, speedVars, unitVars>>

\* lines 240-241 with 137-143: the flush on the way out
FinalFlush ==
  /\ pc = "finally"
  /\ IF pending_checks = <<>>
     THEN UNCHANGED <<checks, pending_checks, last_flush_ts, batches>>
     ELSE /\ checks' = record_connectivity_checks_batch(checks, pending_checks)
          /\ pending_checks' = <<>>
          /\ last_flush_ts' = now
          /\ batches' = Append(batches, Len(pending_checks))
  /\ pc' = "done"
  /\ UNCHANGED <<periods, set_buffer_max, set_buffer_seconds,
                 set_connect_target>>
  /\ UNCHANGED <<last_is_up, outage_started_at, buffer_seconds, buffer_max,
                 is_up, now_iso, connect_target, loop_exc>>
  /\ UNCHANGED envVars
  /\ UNCHANGED <<sample_ts, monState, flipDownTs, fed, appended,
                 tickStage, rcBefore, deliveries, usedMax, timeFlushed,
                 handled, lastRc, rcRepeat, ticks, restarts, settingChanges,
                 apiReads>>
  /\ UNCHANGED <<alignVars, speedVars, unitVars>>

\* the process stops at any point (kill, power loss) and is started again:
\* module start of main.py, then _startup; only the store survives
Restart ==
  /\ restarts + settingChanges + apiReads < MaxEvents
  /\ restarts' = restarts + 1
  /\ pc' = "init"
  /\ last_is_up' = None
  /\ outage_started_at' = NULL
  /\ pending_checks' = <<>>
  /\ last_flush_ts' = now
  /\ buffer_seconds' = 0
  /\ buffer_max' = 1
  /\ is_up' = FALSE
  /\ now_iso' = NULL
  /\ connect_target' = ""
  /\ loop_exc' = NoException
  /\ tickStage' = <<>>
  /\ rcBefore' = <<>>
  /\ deliveries' = <<>>
  /\ api_current' = NoRow
  /\ monState' = StoreState(periods)
  /\ batches' = <<>>
  /\ fed' = 0
  /\ appended' = <<>>
  /\ usedMax' = {}
  /\ timeFlushed' = FALSE
  /\ handled' = <<>>
  /\ rcRepeat' = FALSE
  /\ ticks' = 0
  /\ UNCHANGED <<storeVars, now, smtp_enabled, sent>>
  /\ UNCHANGED <<sample_ts, flipDownTs, lastRc, settingChanges, apiReads>>
  /\ UNCHANGED <<alignVars, speedVars, unitVars>>

\* main.py 129-133: api_status reads the open period from a worker thread
ApiStatus ==
  /\ pc # "done"
  /\ restarts + settingChanges + apiReads < MaxEvents
  /\ apiReads' = apiReads + 1
  /\ api_current' = get_current_connectivity_period(periods)
  /\ UNCHANGED <<storeVars, loopVars, now, smtp_enabled, sent>>
  /\ UNCHANGED <<sample_ts, monState, flipDownTs, batches, fed, appended,
                 tickStage, rcBefore, deliveries, usedMax,
                 timeFlushed, handled, lastRc, rcRepeat, ticks, restarts,
                 settingChanges>>
  /\ UNCHANGED <<alignVars, speedVars, unitVars>>

\* main.py 305-318 with db.py 120-130: a buffer setting is changed
SetSetting ==
  /\ pc # "done"
  /\ restarts + settingChanges + apiReads < MaxEvents
  /\ settingChanges' = settingChanges + 1
  /\ \/ /\ \E v \in BufferMaxValues \ {set_buffer_max} : set_buffer_max' = v
        /\ UNCHANGED <<set_buffer_seconds, set_connect_target>>
     \/ /\ \E v \in BufferSecondsValues \ {set_buffer_seconds} :
             set_buffer_seconds' = v
        /\ UNCHANGED <<set_buffer_max, set_connect_target>>
     \/ /\ \E v \in TargetValues \ {set_connect_target} :
             set_connect_target' = v
        /\ UNCHANGED <<set_buffer_max, set_buffer_seconds>>
  /\ UNCHANGED <<periods, checks, loopVars, envVars>>
  /\ UNCHANGED <<sample_ts, monState, flipDownTs, batches, fed, appended,
                 tickStage, rcBefore, deliveries, usedMax,
                 timeFlushed, handled, lastRc, rcRepeat, ticks, restarts, apiReads>>
  /\ UNCHANGED <<alignVars, speedVars, unitVars>>

Next ==
  \/ Start
  \/ ReadSettings
  \/ Probe
  \/ WriteSample
  \/ RecordConnectivity
  \/ RecordConnectivityInsert
  \/ DetectChange
  \/ SendReturns
  \/ SleepTimeout
  \/ Shutdown
  \/ FinalFlush
  \/ Restart
  \/ ApiStatus
  \/ SetSetting

Spec == Init /\ [][Next]_vars

\* ------------------------------------------------------ the aligned sleep
\* everything of the monitor and of the speed tests stands still
InitAligner ==
  /\ InitConnectivity /\ set_buffer_max = 1 /\ set_buffer_seconds = 0
  /\ set_connect_target = "google.com"
  /\ ~smtp_enabled
  /\ SpeedIdle
  /\ UnitIdle
  /\ al_pc = "ready"
  /\ al_interval \in AlignIntervals
  /\ \E k \in 0..MaxBoundary :
       \E r \in AlignOffsets(Max({MinInterval, al_interval})) :
         al_elapsed = k * Max({MinInterval, al_interval}) + r
  /\ al_result = 0
  /\ al_fires = 0

\* scheduler.py 237 and 256: the loop asks how long to sleep
AlignerCall ==
  /\ al_pc = "ready"
  /\ al_result' = seconds_until_next_aligned(al_interval, al_elapsed)
  /\ al_pc' = "sleeping"
  /\ UNCHANGED <<al_interval, al_elapsed, al_fires>>
  /\ UNCHANGED <<storeVars, loopVars, envVars, histVars, speedVars, unitVars>>

\* scheduler.py 33-38: the sleep times out, not before its time; the next
\* round runs and comes to ask again
AlignedWake ==
  /\ al_pc = "sleeping"
  /\ al_fires < MaxFires
  /\ \E late \in LateValues : al_elapsed' = al_elapsed + al_result + late
  /\ al_fires' = al_fires + 1
  /\ al_pc' = "ready"
  /\ UNCHANGED <<al_interval, al_result>>
  /\ UNCHANGED <<storeVars, loopVars, envVars, histVars, speedVars, unitVars>>

NextAligner ==
  \/ AlignerCall
  \/ AlignedWake

SpecAligner == InitAligner /\ [][NextAligner]_vars

\* ------------------------------------------------------------ speed tests
\* what the monitor holds still while the speed tests are looked at
monitorIdleVars ==
  <<checks, set_buffer_max, set_buffer_seconds, set_connect_target, loopVars,
    smtp_enabled, sent,
    api_current, histVars, alignVars, unitVars>>

configVars ==
  <<set_speedtest_mode, set_speedtest_url, cfg_speedtest_url,
    speedtest_skip_if_offline>>

InitSpeed ==
  /\ InitConnectivity /\ set_buffer_max = 1 /\ set_buffer_seconds = 0
  /\ set_connect_target = "google.com"
  /\ ~smtp_enabled
  /\ AlignIdle
  /\ UnitIdle
  /\ set_speedtest_mode \in ModeValues
  /\ set_speedtest_url \in UrlValues
  /\ cfg_speedtest_url \in CfgUrlValues
  \* the URLs are read in every mode and used in url mode only; the
  \* compiled-in URL is used when the setting is empty
  /\ set_speedtest_mode \in OoklaModes => set_speedtest_url = ""
  /\ set_speedtest_url # "" => cfg_speedtest_url = ""
  /\ set_speedtest_mode \in OoklaModes => cfg_speedtest_url = ""
  /\ speedtest_skip_if_offline \in BOOLEAN
  /\ speed_tests = <<>>
  /\ lock_locked = FALSE
  /\ lock_waiters = <<>>
  /\ running = FALSE
  /\ running_since_iso = NULL
  /\ task_pc = [t \in Tasks |-> IF t = LoopTask THEN "top" ELSE "none"]
  /\ task_local = [t \in Tasks |-> NoLocals]
  /\ current_task = {}
  /\ stop_set = FALSE
  /\ api_running = NotRead
  /\ run_now_started = <<>>
  /\ invocations = <<>>

\* the pcs at which an invocation is between taking and releasing the lock
SectionPcs ==
  {"locked", "since", "body", "await_ookla", "await_url", "finally",
   "finally_since", "release"}
AwaitPcs == {"await_ookla", "await_url"}

LoopRuns == Cardinality({i \in DOMAIN invocations : invocations[i].task = LoopTask})

\* the events of the behaviour so far (now counts the monitor's samples)
SpeedEvents ==
  Len(run_now_started) + LoopRuns + now
    + (IF api_running.read THEN 1 ELSE 0) + (IF stop_set THEN 1 ELSE 0)

\* scheduler.py 53-55: run_speedtest_once is entered and asks for the lock
Enter(t) ==
  /\ invocations' = Append(invocations,
       [task |-> t, skip_due |-> "unknown", strategy |-> 0, records |-> {},
        end |-> "running"])
  /\ task_local' = [task_local EXCEPT ![t] =
       [NoLocals EXCEPT !.inv = Len(invocations) + 1]]
  /\ IF LockFree(lock_locked, lock_waiters)
     THEN /\ lock_locked' = TRUE
          /\ task_pc' = [task_pc EXCEPT ![t] = "locked"]
          /\ current_task' = {t}
          /\ UNCHANGED lock_waiters
     ELSE /\ lock_waiters' = Append(lock_waiters, t)
          /\ task_pc' = [task_pc EXCEPT ![t] = "waiting"]
          /\ current_task' = {}
          /\ UNCHANGED lock_locked

\* scheduler.py 244-255: a round of speedtest_loop starts (the first one,
\* or after the sleep timed out) and calls run_speedtest_once
SpeedtestLoopTick ==
  /\ current_task = {}
  /\ ~stop_set
  /\ task_pc[LoopTask] \in {"top", "sleep"}
  /\ SpeedEvents < MaxSpeedEvents
  /\ Enter(LoopTask)
  /\ UNCHANGED <<periods, now, monitorIdleVars, configVars, speed_tests,
                 running, running_since_iso, stop_set, api_running,
                 run_now_started>>

\* main.py 338-348: the run-now handler, which has no await point
ApiSpeedtestRun ==
  /\ current_task = {}
  /\ Len(run_now_started) < MaxManual
  /\ SpeedEvents < MaxSpeedEvents
  /\ IF running
     THEN /\ run_now_started' = Append(run_now_started, FALSE)
          /\ UNCHANGED task_pc
     ELSE /\ run_now_started' = Append(run_now_started, TRUE)
          /\ \E m \in ManualTasks :
               /\ task_pc[m] = "none"
               /\ \A k \in ManualTasks : k < m => task_pc[k] # "none"
               /\ task_pc' = [task_pc EXCEPT ![m] = "created"]
  /\ UNCHANGED <<periods, now, monitorIdleVars, configVars, speed_tests,
                 lock_locked, lock_waiters, running, running_since_iso,
                 task_local, current_task, stop_set, api_running,
                 invocations>>

\* main.py 344-346: the task made by the handler gets to run
RunNowTaskStart(m) ==
  /\ current_task = {}
  /\ task_pc[m] = "created"
  /\ Enter(m)
  /\ UNCHANGED <<periods, now, monitorIdleVars, configVars, speed_tests,
                 running, running_since_iso, stop_set, api_running,
                 run_now_started>>

\* asyncio.Lock: release woke the first waiter, which now takes the lock
LockAcquired(t) ==
  /\ current_task = {}
  /\ task_pc[t] = "waiting"
  /\ ~lock_locked
  /\ lock_waiters # <<>> /\ Head(lock_waiters) = t
  /\ lock_locked' = TRUE
  /\ lock_waiters' = Tail(lock_waiters)
  /\ task_pc' = [task_pc EXCEPT ![t] = "locked"]
  /\ current_task' = {t}
  /\ UNCHANGED <<periods, now, monitorIdleVars, configVars, speed_tests,
                 running, running_since_iso, task_local, stop_set,
                 api_running, run_now_started, invocations>>

\* scheduler.py 56
SetRunning(t) ==
  /\ current_task = {t}
  /\ task_pc[t] = "locked"
  /\ running' = TRUE
  /\ task_pc' = [task_pc EXCEPT ![t] = "since"]
  /\ UNCHANGED <<periods, now, monitorIdleVars, configVars, speed_tests,
                 lock_locked, lock_waiters, running_since_iso, task_local,
                 current_task, stop_set, api_running, run_now_started,
                 invocations>>

\* scheduler.py 57
SetRunningSince(t) ==
  /\ current_task = {t}
  /\ task_pc[t] = "since"
  /\ running_since_iso' = to_iso_z(now)
  /\ task_pc' = [task_pc EXCEPT ![t] = "body"]
  /\ UNCHANGED <<periods, now, monitorIdleVars, configVars, speed_tests,
                 lock_locked, lock_waiters, running, task_local,
                 current_task, stop_set, api_running, run_now_started,
                 invocations>>

\* scheduler.py 59-116: settings, skip check and dispatch, up to the await
\* of the strategy or, without one, through record_speed_test (117-125)
ReadAndDispatch(t) ==
  /\ current_task = {t}
  /\ task_pc[t] = "body"
  /\ LET speedtest_mode == set_speedtest_mode
         speedtest_url == EffectiveUrl(set_speedtest_url, cfg_speedtest_url)
         started_at_iso == to_iso_z(now)
         i == task_local[t].inv
         due == IF /\ speedtest_skip_if_offline
                   /\ \E k \in OpenIds(periods) :
                        k = Max(OpenIds(periods)) /\ periods[k].is_up = 0
                THEN "yes" ELSE "no"
     IN
     /\ task_local' = [task_local EXCEPT ![t] =
          [@ EXCEPT !.speedtest_mode = speedtest_mode,
                    !.speedtest_url = speedtest_url,
                    !.started_at_iso = started_at_iso]]
     /\ IF SkipIfOffline(speedtest_skip_if_offline, periods)
        THEN /\ speed_tests' = record_speed_test(speed_tests, started_at_iso,
                  0, 0, 0, Some("offline (skipped)"), speedtest_mode)
             /\ invocations' = [invocations EXCEPT
                  ![i].skip_due = due,
                  ![i].records = @ \cup {Len(speed_tests) + 1}]
             /\ task_pc' = [task_pc EXCEPT ![t] = "finally"]
             /\ UNCHANGED current_task
        ELSE IF speedtest_mode \in OoklaModes
        THEN /\ invocations' = [invocations EXCEPT
                  ![i].skip_due = due, ![i].strategy = @ + 1]
             /\ task_pc' = [task_pc EXCEPT ![t] = "await_ookla"]
             /\ current_task' = {}
             /\ UNCHANGED speed_tests
        ELSE IF speedtest_url # ""
        THEN /\ invocations' = [invocations EXCEPT
                  ![i].skip_due = due, ![i].strategy = @ + 1]
             /\ task_pc' = [task_pc EXCEPT ![t] = "await_url"]
             /\ current_task' = {}
             /\ UNCHANGED speed_tests
        ELSE /\ speed_tests' = record_speed_test(speed_tests, started_at_iso,
                  0, 0, 0, Some("speedtest_url not set (skipped)"), speedtest_mode)
             /\ invocations' = [invocations EXCEPT
                  ![i].skip_due = due,
                  ![i].records = @ \cup {Len(speed_tests) + 1}]
             /\ task_pc' = [task_pc EXCEPT ![t] = "finally"]
             /\ UNCHANGED current_task
  /\ UNCHANGED <<periods, now, monitorIdleVars, configVars, lock_locked,
                 lock_waiters, running, running_since_iso, stop_set,
                 api_running, run_now_started>>

\* scheduler.py 83-101 and 104-113: the worker thread is through with the
\* strategy and the task goes on; a result is recorded, an exception
\* leaves the try block
StrategyReturns(t) ==
  /\ current_task = {}
  /\ task_pc[t] \in AwaitPcs
  /\ LET i == task_local[t].inv
         outcomes == IF task_pc[t] = "await_ookla" THEN run_ookla
                     ELSE run_speed_test(task_local[t].speedtest_url)
     IN \E result \in outcomes :
          IF result.raised
          THEN /\ task_local' = [task_local EXCEPT ![t].exc = "error"]
               /\ UNCHANGED <<speed_tests, invocations>>
          ELSE /\ speed_tests' = record_speed_test(speed_tests,
                    task_local[t].started_at_iso, result.duration_seconds,
                    IF task_pc[t] = "await_ookla" THEN 0
                    ELSE result.bytes_downloaded,
                    result.mbps, result.error, task_local[t].speedtest_mode)
               /\ invocations' = [invocations EXCEPT
                    ![i].records = @ \cup {Len(speed_tests) + 1}]
               /\ UNCHANGED task_local
  /\ task_pc' = [task_pc EXCEPT ![t] = "finally"]
  /\ current_task' = {t}
  /\ UNCHANGED <<periods, now, monitorIdleVars, configVars, lock_locked,
                 lock_waiters, running, running_since_iso, stop_set,
                 api_running, run_now_started>>

\* scheduler.py 127
ClearRunning(t) ==
  /\ current_task = {t}
  /\ task_pc[t] = "finally"
  /\ running' = FALSE
  /\ task_pc' = [task_pc EXCEPT ![t] = "finally_since"]
  /\ UNCHANGED <<periods, now, monitorIdleVars, configVars, speed_tests,
                 lock_locked, lock_waiters, running_since_iso, task_local,
                 current_task, stop_set, api_running, run_now_started,
                 invocations>>

\* scheduler.py 128
ClearRunningSince(t) ==
  /\ current_task = {t}
  /\ task_pc[t] = "finally_since"
  /\ running_since_iso' = NULL
  /\ task_pc' = [task_pc EXCEPT ![t] = "release"]
  /\ UNCHANGED <<periods, now, monitorIdleVars, configVars, speed_tests,
                 lock_locked, lock_waiters, running, task_local,
                 current_task, stop_set, api_running, run_now_started,
                 invocations>>

\* mutant: an exception leaves the function with the lock still held
ReleaseLock_KeptOnError(t) ==
  /\ current_task = {t}
  /\ task_pc[t] = "release"
  /\ lock_locked' = (task_local[t].exc = "error")
  /\ current_task' = {}
  /\ LET exc == task_local[t].exc IN
     /\ invocations' = [invocations EXCEPT ![task_local[t].inv].end =
          CASE exc = "none" -> "returned"
            [] exc = "error" -> "raised"
            [] OTHER -> "cancelled"]
     /\ task_pc' = [task_pc EXCEPT ![t] =
          CASE exc = "none" -> IF t = LoopTask THEN "sleep" ELSE "finished"
            [] exc = "error" -> IF t = LoopTask THEN "dead" ELSE "failed"
            [] OTHER -> "cancelled"]
  /\ UNCHANGED <<periods, now, monitorIdleVars, configVars, speed_tests,
                 lock_waiters, running, running_since_iso, task_local,
                 stop_set, api_running, run_now_started>>

\* the end of `async with` (scheduler.py 55): the lock is released and the
\* invocation returns or lets its exception through; speedtest_loop then
\* sleeps (256) or dies, a run-now task ends
ReleaseLock(t) ==
  /\ current_task = {t}
  /\ task_pc[t] = "release"
  /\ lock_locked' = FALSE
  /\ current_task' = {}
  /\ LET exc == task_local[t].exc IN
     /\ invocations' = [invocations EXCEPT ![task_local[t].inv].end =
          CASE exc = "none" -> "returned"
            [] exc = "error" -> "raised"
            [] OTHER -> "cancelled"]
     /\ task_pc' = [task_pc EXCEPT ![t] =
          CASE exc = "none" -> IF t = LoopTask THEN "sleep" ELSE "finished"
            [] exc = "error" -> IF t = LoopTask THEN "dead" ELSE "failed"
            [] OTHER -> "cancelled"]
  /\ UNCHANGED <<periods, now, monitorIdleVars, configVars, speed_tests,
                 lock_waiters, running, running_since_iso, task_local,
                 stop_set, api_running, run_now_started>>

\* scheduler.py 197: connectivity_loop, on the same event loop, records a
\* sample between two steps of the speed-test tasks
MonitorRecordConnectivity ==
  /\ current_task = {}
  /\ SpeedEvents < MaxSpeedEvents
  /\ now' = now + 1
  /\ \E up \in BOOLEAN :
       periods' = record_connectivity(periods, to_iso_z(now + 1), up)
  /\ UNCHANGED <<monitorIdleVars, speedVars>>

\* main.py 129-155: api_status, in a worker thread, reads the runtime
ApiStatusRuntime ==
  /\ ~api_running.read
  /\ SpeedEvents < MaxSpeedEvents
  /\ api_running' = [read |-> TRUE, running |-> running,
                     running_since_iso |-> running_since_iso]
  /\ UNCHANGED <<periods, now, monitorIdleVars, configVars, speed_tests,
                 lock_locked, lock_waiters, running, running_since_iso,
                 task_pc, task_local, current_task, stop_set,
                 run_now_started, invocations>>

\* main.py 116-126: stop is set and speedtest_loop is cancelled where it
\* waits; the run-now tasks are not in app.state.tasks
SpeedtestShutdown ==
  /\ current_task = {}
  /\ ~stop_set
  /\ SpeedEvents < MaxSpeedEvents
  /\ stop_set' = TRUE
  /\ LET at == task_pc[LoopTask] IN
     IF at \in {"top", "sleep"}
     THEN /\ task_pc' = [task_pc EXCEPT ![LoopTask] = "cancelled"]
          /\ UNCHANGED <<lock_waiters, task_local, current_task, invocations>>
     ELSE IF at = "waiting"
     THEN /\ task_pc' = [task_pc EXCEPT ![LoopTask] = "cancelled"]
          /\ lock_waiters' = SelectSeq(lock_waiters, LAMBDA w : w # LoopTask)
          /\ invocations' = [invocations EXCEPT
               ![task_local[LoopTask].inv].end = "cancelled"]
          /\ UNCHANGED <<task_local, current_task>>
     ELSE IF at \in AwaitPcs
     THEN /\ task_pc' = [task_pc EXCEPT ![LoopTask] = "finally"]
          /\ task_local' = [task_local EXCEPT ![LoopTask].exc = "cancel"]
          /\ current_task' = {LoopTask}
          /\ UNCHANGED <<lock_waiters, invocations>>
     ELSE UNCHANGED <<task_pc, lock_waiters, task_local, current_task,
                      invocations>>
  /\ UNCHANGED <<periods, now, monitorIdleVars, configVars, speed_tests,
                 lock_locked, running, running_since_iso, api_running,
                 run_now_started>>

NextSpeed ==
  \/ SpeedtestLoopTick
  \/ ApiSpeedtestRun
  \/ \E m \in ManualTasks : RunNowTaskStart(m)
  \/ \E t \in Tasks : LockAcquired(t)
  \/ \E t \in Tasks : SetRunning(t)
  \/ \E t \in Tasks : SetRunningSince(t)
  \/ \E t \in Tasks : ReadAndDispatch(t)
  \/ \E t \in Tasks : StrategyReturns(t)
  \/ \E t \in Tasks : ClearRunning(t)
  \/ \E t \in Tasks : ClearRunningSince(t)
  \/ \E t \in Tasks : ReleaseLock(t)
  \/ MonitorRecordConnectivity
  \/ ApiStatusRuntime
  \/ SpeedtestShutdown

SpecSpeed == InitSpeed /\ [][NextSpeed]_vars

\* --------------------------------------------------- reading the settings
\* the monitor, the aligner and the speed tests stand still
InitSettings ==
  /\ InitConnectivity /\ set_buffer_max = 1 /\ set_buffer_seconds = 0
  /\ set_connect_target = "google.com"
  /\ ~smtp_enabled
  /\ AlignIdle
  /\ SpeedIdle
  /\ st_name \in SettingNames
  /\ st_stored \in {None} \cup {Some(t) : t \in SettingTexts}
  /\ st_pc = "stored"
  /\ st_result = [raised |-> FALSE, value |-> Finite(0)]
  /\ QueryIdle
  /\ ReconfIdle

\* scheduler.py 154-180, 246-252, 59-65: the tick reads the setting
SettingsRead ==
  /\ st_pc = "stored"
  /\ st_result' = read_setting(st_name, st_stored)
  /\ st_pc' = IF st_result'.raised THEN "raised" ELSE "read"
  /\ UNCHANGED <<st_name, st_stored>>
  /\ UNCHANGED <<storeVars, loopVars, envVars, histVars, alignVars, speedVars,
                 queryVars, reconfVars>>

\* the statements after the read run with the value it gave
TickGoesOn ==
  /\ st_pc = "read"
  /\ st_pc' = "completed"
  /\ UNCHANGED <<st_name, st_stored, st_result>>
  /\ UNCHANGED <<storeVars, loopVars, envVars, histVars, alignVars, speedVars,
                 queryVars, reconfVars>>

NextSettings ==
  \/ SettingsRead
  \/ TickGoesOn

SpecSettings == InitSettings /\ [][NextSettings]_vars

\* ------------------------------------------------------- the range query
\* the store is filled by record_connectivity, one sample per clock tick,
\* and then asked for the periods of a window
InitQuery ==
  /\ InitConnectivity /\ set_buffer_max = 1 /\ set_buffer_seconds = 0
  /\ set_connect_target = "google.com"
  /\ ~smtp_enabled
  /\ AlignIdle
  /\ SpeedIdle
  /\ SettingsIdle
  /\ QueryIdle
  /\ ReconfIdle

\* scheduler.py 190 and 197: the monitor records the sample of the next tick
QueryRecordConnectivity ==
  /\ q_pc = "idle"
  /\ now < MaxTime
  /\ now' = now + 1
  /\ \E up \in BOOLEAN :
       periods' = record_connectivity(periods, to_iso_z(now'), up)
  /\ UNCHANGED <<checks, set_buffer_max, set_buffer_seconds,
                 set_connect_target, loopVars, smtp_enabled, sent,
                 api_current, histVars, alignVars, speedVars, unitVars>>

\* main.py 371-378 and 435-442, db.py 260-278: a window is asked for
ApiOutages ==
  /\ q_pc = "idle"
  /\ \E from_q, to_q \in 0..MaxTime, f \in {None, Some(TRUE), Some(FALSE)} :
       LET tr == TimeRange(parse_range(from_q, to_q)) IN
       /\ q_start_iso' = tr.start_iso
       /\ q_end_iso' = tr.end_iso
       /\ q_is_up' = f
       /\ q_result' = query_connectivity_periods(periods, tr, f)
  /\ q_pc' = "answered"
  /\ UNCHANGED <<storeVars, loopVars, envVars, histVars, alignVars, speedVars,
                 settingVars, reconfVars>>

NextQuery ==
  \/ QueryRecordConnectivity
  \/ ApiOutages

SpecQuery == InitQuery /\ [][NextQuery]_vars

\* ------------------------------------------------ the interval is re-read
\* one loop, connectivity_loop or speedtest_loop, with its interval setting
InitReconf ==
  /\ InitConnectivity /\ set_buffer_max = 1 /\ set_buffer_seconds = 0
  /\ set_connect_target = "google.com"
  /\ ~smtp_enabled
  /\ AlignIdle
  /\ SpeedIdle
  /\ SettingsIdle
  /\ QueryIdle
  /\ cf_loop \in {"connectivity_loop", "speedtest_loop"}
  /\ cf_setting \in IntervalTexts
  /\ cf_pc = "top"
  /\ cf_interval = Finite(0)
  /\ cf_at_start = ""
  /\ cf_elapsed \in {0, BoundaryGuard, MinInterval + 1}
  /\ cf_sleep = 0
  /\ cf_ticks = 0
  /\ cf_changes = 0
  /\ cf_run = NoRun

\* mutant: the interval is read before the first tick only
ReconfTickStart_ReadOnce ==
  /\ cf_pc = "top"
  /\ cf_ticks < MaxRounds
  /\ cf_interval' = IF cf_ticks = 0
                    THEN read_setting(IntervalSetting(cf_loop), Some(cf_setting)).value
                    ELSE cf_interval
  /\ cf_at_start' = cf_setting
  /\ cf_ticks' = cf_ticks + 1
  /\ cf_pc' = "body"
  /\ UNCHANGED <<cf_loop, cf_setting, cf_elapsed, cf_sleep, cf_changes,
                 cf_run>>
  /\ UNCHANGED <<storeVars, loopVars, envVars, histVars, alignVars, speedVars,
                 settingVars, queryVars>>

\* scheduler.py 153-168 and 245-251: the tick starts with the read of the
\* interval
ReconfTickStart ==
  /\ cf_pc = "top"
  /\ cf_ticks < MaxRounds
  /\ cf_interval' = read_setting(IntervalSetting(cf_loop), Some(cf_setting)).value
  /\ cf_at_start' = cf_setting
  /\ cf_ticks' = cf_ticks + 1
  /\ cf_pc' = "body"
  /\ UNCHANGED <<cf_loop, cf_setting, cf_elapsed, cf_sleep, cf_changes,
                 cf_run>>
  /\ UNCHANGED <<storeVars, loopVars, envVars, histVars, alignVars, speedVars,
                 settingVars, queryVars>>

\* the interval the aligner works with, in half milliseconds (line 42)
AlignedInterval(v) == Max({MinInterval, HalfMillis(v)})

\* how long the work of a tick takes: no time, half a millisecond, to the
\* half millisecond before the next boundary from a boundary, and longer
\* than the interval
RunTimes(interval) == {0, 1, interval - 1, interval + BoundaryGuard + 1}

\* mutant: the sleep is computed from the time the tick began
ReconfSleep_FromStart ==
  /\ cf_pc = "body"
  /\ \E took \in RunTimes(AlignedInterval(cf_interval)) :
       /\ cf_elapsed' = cf_elapsed + took
       /\ cf_sleep' = seconds_until_next_aligned(HalfMillis(cf_interval), cf_elapsed)
  /\ cf_pc' = "sleeping"
  /\ UNCHANGED <<cf_loop, cf_setting, cf_interval, cf_at_start, cf_ticks,
                 cf_changes, cf_run>>
  /\ UNCHANGED <<storeVars, loopVars, envVars, histVars, alignVars, speedVars,
                 settingVars, queryVars>>

\* scheduler.py 237 and 256: the work of the tick is done, the sleep is
\* computed from the local interval_seconds and the clock at that moment
ReconfSleep ==
  /\ cf_pc = "body"
  /\ \E took \in RunTimes(AlignedInterval(cf_interval)) :
       /\ cf_elapsed' = cf_elapsed + took
       /\ cf_sleep' = seconds_until_next_aligned(HalfMillis(cf_interval), cf_elapsed')
  /\ cf_pc' = "sleeping"
  /\ UNCHANGED <<cf_loop, cf_setting, cf_interval, cf_at_start, cf_ticks,
                 cf_changes, cf_run>>
  /\ UNCHANGED <<storeVars, loopVars, envVars, histVars, alignVars, speedVars,
                 settingVars, queryVars>>

\* scheduler.py 33-38 and 238, 257: the sleep times out, on time or late,
\* and the loop goes round; cf_run keeps when the tick was done, the
\* interval of the sleep, the lateness and when the next tick begins
ReconfWake ==
  /\ cf_pc = "sleeping"
  /\ \E late \in LateValues :
       /\ cf_elapsed' = cf_elapsed + cf_sleep + late
       /\ cf_run' =
            [done |-> cf_elapsed, interval |-> AlignedInterval(cf_interval),
             late |-> late, at |-> cf_elapsed']
  /\ cf_pc' = "top"
  /\ UNCHANGED <<cf_loop, cf_setting, cf_interval, cf_at_start, cf_sleep,
                 cf_ticks, cf_changes>>
  /\ UNCHANGED <<storeVars, loopVars, envVars, histVars, alignVars, speedVars,
                 settingVars, queryVars>>

\* main.py 285-334 with db.py 120-130: the interval is set while the loop
\* runs, at any point of its round
ReconfSetSetting ==
  /\ cf_changes < MaxRounds
  /\ \E v \in IntervalTexts \ {cf_setting} : cf_setting' = v
  /\ cf_changes' = cf_changes + 1
  /\ UNCHANGED <<cf_loop, cf_pc, cf_interval, cf_at_start, cf_elapsed,
                 cf_sleep, cf_ticks, cf_run>>
  /\ UNCHANGED <<storeVars, loopVars, envVars, histVars, alignVars, speedVars,
                 settingVars, queryVars>>

NextReconf ==
  \/ ReconfTickStart
  \/ ReconfSleep
  \/ ReconfWake
  \/ ReconfSetSetting

SpecReconf == InitReconf /\ [][NextReconf]_vars

\* ------------------------------------------------------------ the shutdown
\* connectivity_loop and speedtest_loop together, as tasks of one event
\* loop, until _shutdown stops them
InitStop ==
  /\ InitConnectivity /\ set_buffer_max = 3 /\ set_buffer_seconds = 50
  /\ set_connect_target = "google.com"
  /\ smtp_enabled
  /\ AlignIdle
  /\ UnitIdle
  /\ set_speedtest_mode = "url"
  /\ set_speedtest_url = "http://host/file"
  /\ cfg_speedtest_url = ""
  /\ speedtest_skip_if_offline = TRUE
  /\ speed_tests = <<>>
  /\ lock_locked = FALSE
  /\ lock_waiters = <<>>
  /\ running = FALSE
  /\ running_since_iso = NULL
  /\ task_pc = [t \in Tasks |-> IF t = LoopTask THEN "top" ELSE "none"]
  /\ task_local = [t \in Tasks |-> NoLocals]
  /\ current_task = {}
  /\ stop_set = FALSE
  /\ api_running = NotRead
  /\ run_now_started = <<>>
  /\ invocations = <<>>

\* where connectivity_loop waits for the stop event or for a worker thread
MonitorAwaits == {"init", "probe", "send", "sleep"}

\* mutant: the event is set and no task is cancelled or woken
StopSignal_SetOnly ==
  /\ current_task = {}
  /\ ~stop_set
  /\ pc \in MonitorAwaits
  /\ stop_set' = TRUE
  /\ UNCHANGED <<storeVars, loopVars, envVars, histVars, alignVars, unitVars>>
  /\ UNCHANGED <<set_speedtest_mode, set_speedtest_url, speed_tests,
                 cfg_speedtest_url, speedtest_skip_if_offline, lock_locked,
                 lock_waiters, running, running_since_iso, task_pc,
                 task_local, current_task, api_running, run_now_started,
                 invocations>>

\* main.py 115-125: _shutdown runs while both loops are at an await point;
\* it sets the stop event and cancels the two tasks. connectivity_loop
\* leaves its sleep, its probe or its notification for the finally block
\* (a task that has not started yet never runs); speedtest_loop leaves its
\* sleep, or run_speedtest_once through the finally of that function
StopSignal ==
  /\ current_task = {}
  /\ ~stop_set
  /\ pc \in MonitorAwaits
  /\ stop_set' = TRUE
  /\ pc' = IF pc = "init" THEN "done" ELSE "finally"
  /\ LET at == task_pc[LoopTask] IN
     IF at \in AwaitPcs
     THEN /\ task_pc' = [task_pc EXCEPT ![LoopTask] = "finally"]
          /\ task_local' = [task_local EXCEPT ![LoopTask].exc = "cancel"]
          /\ current_task' = {LoopTask}
     ELSE /\ task_pc' = [task_pc EXCEPT ![LoopTask] = "cancelled"]
          /\ UNCHANGED <<task_local, current_task>>
  /\ UNCHANGED <<last_is_up, outage_started_at, pending_checks,
                 last_flush_ts, buffer_seconds, buffer_max, is_up, now_iso,
                 connect_target, loop_exc>>
  /\ UNCHANGED <<storeVars, envVars, histVars, alignVars, unitVars>>
  /\ UNCHANGED <<set_speedtest_mode, set_speedtest_url, speed_tests,
                 cfg_speedtest_url, speedtest_skip_if_offline, lock_locked,
                 lock_waiters, running, running_since_iso, api_running,
                 run_now_started, invocations>>

\* connectivity_loop runs while no other task does; a cancelled task is
\* scheduled with the other one, in either order
MonitorTurn == current_task = {} \/ pc = "finally"

\* speedtest_loop runs while connectivity_loop waits or has ended
SpeedTurn == pc \in MonitorAwaits \cup {"finally", "done"}

\* the steps of the connectivity_loop task
StopMonitorSteps ==
  \/ MonitorTurn /\ Start
  \/ MonitorTurn /\ ReadSettings
  \/ MonitorTurn /\ Probe
  \/ MonitorTurn /\ WriteSample
  \/ MonitorTurn /\ RecordConnectivity
  \/ MonitorTurn /\ RecordConnectivityInsert
  \/ MonitorTurn /\ DetectChange
  \/ MonitorTurn /\ SendReturns
  \/ MonitorTurn /\ SleepTimeout
  \/ MonitorTurn /\ FinalFlush

\* the steps of the speedtest_loop task
StopSpeedSteps ==
  \/ SpeedTurn /\ SpeedtestLoopTick
  \/ SpeedTurn /\ SetRunning(LoopTask)
  \/ SpeedTurn /\ SetRunningSince(LoopTask)
  \/ SpeedTurn /\ ReadAndDispatch(LoopTask)
  \/ SpeedTurn /\ StrategyReturns(LoopTask)
  \/ SpeedTurn /\ ClearRunning(LoopTask)
  \/ SpeedTurn /\ ClearRunningSince(LoopTask)
  \/ SpeedTurn /\ ReleaseLock(LoopTask)

NextStop ==
  \/ StopMonitorSteps
  \/ StopSpeedSteps
  \/ StopSignal

\* the event loop runs every task that is ready, and a worker thread of
\* asyncio.to_thread ends: each task goes on whenever it can
SpecStop ==
  /\ InitStop
  /\ [][NextStop]_vars
  /\ WF_vars(StopMonitorSteps)
  /\ WF_vars(StopSpeedSteps)

\* ------------------------------------------------------ the sample buffer
\* connectivity_loop from its start to its end while requests change the
\* two buffer settings between and during its ticks
InitBuffer ==
  /\ InitConnectivity
  /\ set_connect_target = "google.com"
  /\ ~smtp_enabled
  /\ AlignIdle
  /\ SpeedIdle
  /\ UnitIdle

\* main.py 285-334 with db.py 120-130: one request of api_update_config
\* stores connectivity_check_buffer_seconds and
\* connectivity_check_buffer_max, one of them or both
BufferSetSetting ==
  /\ pc # "done"
  /\ settingChanges < MaxSettingChanges
  /\ settingChanges' = settingChanges + 1
  /\ \E bm \in BufferMaxValues, bs \in BufferSecondsValues :
       /\ <<bm, bs>> # <<set_buffer_max, set_buffer_seconds>>
       /\ set_buffer_max' = bm
       /\ set_buffer_seconds' = bs
  /\ UNCHANGED <<periods, checks, set_connect_target, loopVars, envVars>>
  /\ UNCHANGED <<sample_ts, monState, flipDownTs, batches, fed, appended,
                 tickStage, rcBefore, deliveries, usedMax,
                 timeFlushed, handled, lastRc, rcRepeat, ticks, restarts, apiReads>>
  /\ UNCHANGED <<alignVars, speedVars, unitVars>>

NextBuffer ==
  \/ Start
  \/ ReadSettings
  \/ Probe
  \/ WriteSample
  \/ RecordConnectivity
  \/ RecordConnectivityInsert
  \/ DetectChange
  \/ SleepTimeout
  \/ Shutdown
  \/ FinalFlush
  \/ BufferSetSetting

SpecBuffer == InitBuffer /\ [][NextBuffer]_vars

\* ------------------------------------------------------- the lock, fairly
\* speedtest_loop and the run-now tasks on one event loop that runs every
\* ready task, with strategies that return; no shutdown
InitLock ==
  /\ InitSpeed
  /\ set_speedtest_mode = "url"
  /\ set_speedtest_url \in {"", "http://host/file", "ftp://host:abc/file"}
  /\ cfg_speedtest_url = ""
  /\ ~speedtest_skip_if_offline

\* the steps task t takes by itself once it exists
TaskSteps(t) ==
  \/ RunNowTaskStart(t)
  \/ LockAcquired(t)
  \/ SetRunning(t)
  \/ SetRunningSince(t)
  \/ ReadAndDispatch(t)
  \/ StrategyReturns(t)
  \/ ClearRunning(t)
  \/ ClearRunningSince(t)
  \/ ReleaseLock(t)

NextLock ==
  \/ SpeedtestLoopTick
  \/ ApiSpeedtestRun
  \/ \E m \in ManualTasks : RunNowTaskStart(m)
  \/ \E t \in Tasks : LockAcquired(t)
  \/ \E t \in Tasks : SetRunning(t)
  \/ \E t \in Tasks : SetRunningSince(t)
  \/ \E t \in Tasks : ReadAndDispatch(t)
  \/ \E t \in Tasks : StrategyReturns(t)
  \/ \E t \in Tasks : ClearRunning(t)
  \/ \E t \in Tasks : ClearRunningSince(t)
  \/ \E t \in Tasks : ReleaseLock(t)

SpecLock ==
  /\ InitLock
  /\ [][NextLock]_vars
  /\ \A t \in Tasks : WF_vars(TaskSteps(t))

\* ------------------------------------------------------------- properties
Started(i) == parse_dt(periods[i].started_at)

\* j is the period that follows i in started_at order
Follows(i, j) ==
  /\ Started(i) < Started(j)
  /\ ~ \E k \in DOMAIN periods : Started(i) < Started(k) /\ Started(k) < Started(j)

NumOpen == Cardinality(OpenIds(periods))

\* C1: in every reachable store state at most one period has
\* ended_at = null
C1_AtMostOneOpen == NumOpen <= 1

C1_Witness ==
  restarts = 1 /\ Len(periods) >= 3 /\ NumOpen = 1 /\ pc = "detect"

\* C2 as stated: at any point in time exactly one period has
\* ended_at = null
C2_ExactlyOneOpen == NumOpen = 1

\* C2 amended: at most one period is open at any time, and exactly one
\* whenever the most recent record_connectivity call has returned
C2_OneOpenAfterCall ==
  /\ NumOpen <= 1
  /\ lastRc # None => NumOpen = 1

C2_Witness ==
  lastRc # None /\ Len(periods) >= 2 /\ pc = "sleep" /\ NumOpen = 1

\* C3: taking the periods in started_at order, each period other than the
\* last is closed and its ended_at equals the started_at of the next one,
\* also after a stop and restart at any point
C3_Contiguous ==
  \A i, j \in DOMAIN periods :
    Follows(i, j) =>
      /\ periods[i].ended_at # NULL
      /\ periods[i].ended_at = periods[j].started_at

\* C4: no reader and no stop can find the store with periods recorded and
\* none of them open (a flip takes effect as one step)
C4_AtomicFlip == periods # <<>> => OpenIds(periods) # {}

\* C5: a record_connectivity call with the same is_up as the call before
\* it, that call having returned, changes no period and returns at once
C5_Idempotent ==
  [][(pc = "rc" /\ pc' \in {"detect", "rc_insert"} /\ lastRc = Some(is_up))
       => (periods' = periods /\ pc' = "detect")]_vars

C5_Witness ==
  rcRepeat /\ pc = "detect" /\ Len(periods) >= 2 /\ lastRc = Some(is_up)

\* C6: any two periods consecutive in started_at order have opposite
\* is_up values
C6_Alternating ==
  \A i, j \in DOMAIN periods :
    Follows(i, j) => periods[i].is_up # periods[j].is_up

\* the loop is handling a Down->Up change and computes the outage duration
ComputesDuration ==
  /\ pc = "detect"
  /\ last_is_up = Some(FALSE) /\ is_up
  /\ smtp_enabled /\ outage_started_at # NULL

\* C7: the outage duration computed at a Down->Up change is the time of
\* the Up sample minus the time of the sample at which the state became
\* Down, however many Down samples lie in between
C7_OutageDuration ==
  ComputesDuration =>
    OutageDuration(outage_started_at, now_iso) = sample_ts - flipDownTs

C7_Witness ==
  ComputesDuration /\ sample_ts - flipDownTs >= 2 /\ restarts = 0

\* the step in which the loop handles the state change of a sample
HandlesSample == pc = "detect" /\ pc' \in {"send", "sleep"}

EndedOutageLong ==
  /\ handled # <<>>
  /\ handled[1].end - handled[1].start
       >= smtp_min_outage_seconds * TicksPerSecond

C9_RestartResumes ==
  /\ (pc = "top" /\ ticks = 0) =>
       /\ OpenIds(periods) = {} => (last_is_up = None /\ outage_started_at = NULL)
       /\ \A i \in OpenIds(periods) :
            /\ last_is_up = Some(periods[i].is_up = 1)
            /\ periods[i].is_up = 1 => outage_started_at = NULL
            /\ periods[i].is_up = 0 =>
                 /\ outage_started_at = periods[i].started_at
                 /\ parse_dt(outage_started_at) = flipDownTs
  /\ (pc = "send" /\ ticks = 1) =>
       sent[Len(sent)].duration = sample_ts - flipDownTs

C9_Witness ==
  /\ restarts = 1 /\ pc = "send" /\ ticks = 1
  /\ sent[Len(sent)].duration = sample_ts - flipDownTs

\* the batch sizes C10 expects for k samples and a count threshold of n
ExpectedBatches(k, n) ==
  [i \in 1..((k \div n) + (IF k % n = 0 THEN 0 ELSE 1)) |->
     IF i <= k \div n THEN n ELSE k % n]

\* C10: with buffer_max = N > 1 throughout and the time threshold never
\* met, k samples and then termination give floor(k/N) batch writes of N
\* samples, then one of k mod N samples when that is not zero
C10_CountFlush ==
  \A n \in BufferMaxValues :
    (pc = "done" /\ usedMax = {n} /\ n > 1 /\ ~timeFlushed)
      => batches = ExpectedBatches(fed, n)

C10_Witness ==
  /\ pc = "done" /\ usedMax = {2} /\ ~timeFlushed
  /\ fed = 3 /\ batches = <<2, 1>>

\* the step of a tick that disposes of its sample (lines 191-196)
WritesSample == pc = "write" /\ pc' = "rc"

\* C11: on a tick whose settings give buffer_max <= 1 and
\* buffer_seconds <= 0 the sample is written to the store by itself in
\* that tick, before the period update of the tick, and is neither put in
\* the buffer nor written as part of a batch
C11_WriteThrough ==
  [][(WritesSample /\ buffer_max <= 1 /\ buffer_seconds <= 0)
       => /\ checks' = Append(checks, <<now_iso, is_up>>)
          /\ pending_checks' = pending_checks
          /\ appended' = appended
          /\ batches' = batches
          /\ periods' = periods
          /\ lastRc' = lastRc]_vars

C11_Witness ==
  /\ pc = "rc" /\ buffer_max <= 1 /\ buffer_seconds <= 0
  /\ Len(checks) >= 2 /\ checks[Len(checks)] = <<now_iso, is_up>>
  /\ appended = <<>> /\ batches = <<>> /\ restarts = 0

\* the samples the store holds
Stored == {checks[i] : i \in DOMAIN checks}

\* C12: when connectivity_loop has returned, by the stop signal or by
\* cancellation at an await point, the buffer is empty and every sample
\* appended to it during the run is in the store
C12_NoSampleLost ==
  pc = "done" =>
    /\ pending_checks = <<>>
    /\ \A i \in DOMAIN appended : appended[i] \in Stored

C12_Witness ==
  /\ pc = "done" /\ usedMax = {3} /\ ~timeFlushed
  /\ Len(appended) = 2 /\ batches = <<2>>
  /\ \A i \in DOMAIN appended : appended[i] \in Stored
\* the interval the aligner works with, and the time since the last boundary
AlInterval == IF al_interval < MinInterval THEN MinInterval ELSE al_interval
AlRemainder == al_elapsed % AlInterval
AlCalled == al_pc = "sleeping"

\* C13 as stated: at less than 0.01 s from an aligned boundary, before it
\* or after it, the aligner returns a full interval, never a short sleep
C13_GuardBothSides ==
  (AlCalled /\ (AlRemainder < BoundaryGuard
                  \/ AlInterval - AlRemainder < BoundaryGuard))
    => al_result = AlInterval

\* C13 amended: on a boundary and less than 0.01 s after it the aligner
\* returns a full interval; less than 0.01 s before a boundary it returns
\* the time left to that boundary, at least 0.001 s, a short sleep; a loop
\* whose sleeps never end early therefore wakes at most once between two
\* consecutive boundaries
C13_GuardAfterBoundary ==
  /\ [](AlCalled =>
          /\ AlRemainder < BoundaryGuard => al_result = AlInterval
          /\ (AlRemainder >= BoundaryGuard
                /\ AlInterval - AlRemainder < BoundaryGuard) =>
               /\ al_result = Max({MinSleep, AlInterval - AlRemainder})
               /\ al_result < BoundaryGuard)
  /\ [][al_fires' = al_fires + 1 =>
          al_elapsed' \div AlInterval > al_elapsed \div AlInterval]_vars

C13_Witness ==
  /\ AlCalled /\ al_fires >= 1
  /\ AlRemainder > 0 /\ AlRemainder < BoundaryGuard
  /\ al_result = AlInterval

\* C14 as stated: the aligner returns 0 only on a boundary, and at every
\* other instant interval - (elapsed mod interval)
C14_ExactFormula ==
  AlCalled =>
    /\ al_result = 0 => AlRemainder = 0
    /\ AlRemainder # 0 => al_result = AlInterval - AlRemainder

\* C14 amended: the aligner never returns 0; on a boundary and less than
\* 0.01 s after it, it returns the interval; at every other instant it
\* returns interval - (elapsed mod interval), raised to 0.001 s when less;
\* now + result is a multiple of the interval from local midnight on a
\* boundary and whenever elapsed mod interval >= 0.01 s and the time left
\* is at least 0.001 s
C14_FormulaWithGuard ==
  AlCalled =>
    /\ al_result >= MinSleep /\ al_result <= AlInterval
    /\ AlRemainder < BoundaryGuard => al_result = AlInterval
    /\ AlRemainder >= BoundaryGuard =>
         /\ AlInterval - AlRemainder >= MinSleep =>
              al_result = AlInterval - AlRemainder
         /\ AlInterval - AlRemainder < MinSleep => al_result = MinSleep
    /\ (AlRemainder = 0
          \/ (AlRemainder >= BoundaryGuard
                /\ AlInterval - AlRemainder >= MinSleep))
         => (al_elapsed + al_result) % AlInterval = 0

C14_Witness ==
  /\ AlCalled /\ al_interval = 1800000 /\ al_fires >= 1
  /\ AlRemainder >= BoundaryGuard
  /\ al_result = AlInterval - AlRemainder
  /\ (al_elapsed + al_result) % AlInterval = 0

\* the tasks between taking and releasing the lock
InSection == {t \in Tasks : task_pc[t] \in SectionPcs}

\* C15: under every interleaving of speedtest_loop and the run-now tasks
\* at most one run_speedtest_once invocation is between taking and
\* releasing the lock, which encloses its measurement section
C15_SingleFlight == Cardinality(InSection) <= 1

C15_Witness ==
  /\ \E t \in Tasks : task_pc[t] \in AwaitPcs
  /\ Len(lock_waiters) = 2
  /\ Cardinality(InSection) = 1

\* the run-now tasks made and not yet ended
RunNowPending ==
  {m \in ManualTasks : task_pc[m] \in {"created", "waiting"} \cup SectionPcs}

\* C16: of two concurrent run-now requests one starts a speed test and the
\* other is declined, and a run-now task never waits for the lock behind
\* another run
C16_RunNowSingle ==
  /\ Cardinality(RunNowPending) <= 1
  /\ \A m \in ManualTasks : task_pc[m] # "waiting"

\* C17: wherever another task or thread looks, running is true exactly
\* when the lock is held, and running_since_iso is set exactly when
\* running is true
C17_RuntimeTracksLock ==
  /\ running <=> lock_locked
  /\ (running_since_iso # NULL) <=> running

\* the records an invocation persisted
RecordsOf(i) == {speed_tests[k] : k \in invocations[i].records}

\* C18: an invocation that finds the policy enabled and the open period
\* Down persists exactly one record, with error "offline (skipped)",
\* 0 bytes, 0 Mbit/s and duration 0, and calls no strategy, in every mode;
\* one that finds no open period, an Up one or the policy disabled
\* persists no such record
C18_SkipIfOffline ==
  \A i \in DOMAIN invocations :
    /\ invocations[i].skip_due = "yes" =>
         /\ invocations[i].strategy = 0
         /\ Cardinality(invocations[i].records) = 1
         /\ \A r \in RecordsOf(i) :
              /\ r.error = Some("offline (skipped)")
              /\ r.bytes_downloaded = 0 /\ r.mbps = 0
              /\ r.duration_seconds = 0
    /\ invocations[i].skip_due = "no" =>
         \A r \in RecordsOf(i) : r.error # Some("offline (skipped)")

C18_Witness ==
  \E i \in DOMAIN invocations :
    /\ invocations[i].skip_due = "yes" /\ invocations[i].end = "returned"
    /\ invocations[i].task # LoopTask
    /\ \E r \in RecordsOf(i) :
         r.speedtest_mode = "speedtest.pl" /\ r.error = Some("offline (skipped)")

\* C19: every invocation of run_speedtest_once that has ended, by return
\* or by an exception, persisted exactly one record
C19_ExactlyOneRecord ==
  \A i \in DOMAIN invocations :
    invocations[i].end \in {"returned", "raised"} =>
      Cardinality(invocations[i].records) = 1

\* C20: no failure of a strategy leaves run_speedtest_once as an
\* exception, and speedtest_loop is never ended by one
C20_FailureCaptured ==
  /\ \A i \in DOMAIN invocations : invocations[i].end # "raised"
  /\ task_pc[LoopTask] # "dead"

\* C21: check_target reports every failure to resolve or connect as Down,
\* so no exception of the probe ever leaves the body of connectivity_loop
C21_ProbeYieldsBoolean == loop_exc = NoException

\* C22: for each of the five numeric settings and every stored text, the
\* read raises nothing, a text that does not parse gives the compiled
\* default, and the tick goes on after the read
C22_FailSoft ==
  /\ st_pc # "raised"
  /\ st_pc \in {"read", "completed"} =>
       /\ ~st_result.raised
       /\ (st_stored # None
           /\ ParseSetting(st_name, st_stored[1]) = ValueError)
            => st_result.value = CfgDefault(st_name)

C22_Witness ==
  /\ st_pc = "completed"
  /\ st_name = "connectivity_check_buffer_max"
  /\ st_stored = Some("2.5")
  /\ st_result.value = Finite(300000)

\* the steps of one tick, without and with a notification
TickOrders ==
  {<<"probe", "sample", "period", "update">>,
   <<"probe", "sample", "period", "notify", "update">>}

\* the sample of the running tick is in the store or in the buffer
SampleKept ==
  \/ <<now_iso, is_up>> \in Stored
  \/ \E i \in DOMAIN pending_checks : pending_checks[i] = <<now_iso, is_up>>

\* the open period of the store has the state of the running tick's sample
PeriodUpdated ==
  get_current_connectivity_period(periods).is_up = (IF is_up THEN 1 ELSE 0)

\* the steps of the running tick that are done when the loop is at pc
StepsDone ==
  CASE pc = "write" -> {<<"probe">>}
    [] pc \in {"rc", "rc_insert"} -> {<<"probe", "sample">>}
    [] pc = "detect" -> {<<"probe", "sample", "period">>}
    [] pc = "send" -> {<<"probe", "sample", "period", "notify">>}
    [] pc = "sleep" -> TickOrders
    [] pc \in {"top", "probe"} -> TickOrders \cup {<<>>}
    [] OTHER -> UNION {{SubSeq(o, 1, n) : n \in 0..Len(o)} : o \in TickOrders}

\* C23: the steps of a tick happen in the order probe, sample, period
\* (then notification, then the update of last_is_up); the sample is kept
\* before record_connectivity runs and the period is updated before the
\* change detection; the next tick begins only when the steps of the
\* running one, notification included, are all done
C23_TickInOrder ==
  /\ tickStage \in StepsDone
  /\ pc \in {"rc", "rc_insert", "detect", "send", "sleep"} => SampleKept
  /\ pc \in {"detect", "send", "sleep"} => PeriodUpdated

C23_Witness ==
  /\ pc = "probe"
  /\ tickStage = <<"probe", "sample", "period", "notify", "update">>
  /\ Len(deliveries) = 1

\* the tick that just ended called send_outage_notification
NotifiedTick ==
  /\ pc \in {"sleep", "top", "probe"}
  /\ tickStage = <<"probe", "sample", "period", "notify", "update">>

\* C26: whatever send_outage_notification meets (an SMTP error, a
\* connection error, success), nothing is raised into connectivity_loop;
\* when it has returned the outage marker is cleared and last_is_up is the
\* sample's state, and no notification is sent a second time
C26_BestEffort ==
  /\ loop_exc \notin SmtpOutcomes
  /\ NotifiedTick =>
       /\ outage_started_at = NULL
       /\ last_is_up = Some(is_up)
       /\ deliveries # <<>>
  /\ \A i, j \in DOMAIN sent : i # j => sent[i] # sent[j]

C26_Witness ==
  /\ pc = "probe"
  /\ NotifiedTick
  /\ deliveries = <<FALSE>>

\* rows of the store before the call that are the same after it
SameRow(i) == i \in DOMAIN periods /\ periods[i] = rcBefore[i]

\* the call added one row, open, with the sample's state and timestamp
OneNewOpenRow ==
  /\ Len(periods) = Len(rcBefore) + 1
  /\ periods[Len(periods)].started_at = now_iso
  /\ periods[Len(periods)].ended_at = NULL
  /\ periods[Len(periods)].is_up = (IF is_up THEN 1 ELSE 0)

\* C27: when record_connectivity has returned: with no open period before
\* the call, the store has one more row, open, with the sample's state and
\* timestamp, and every other row is as before; with an open period of the
\* opposite state, that row has ended_at = the timestamp and is otherwise as
\* before, one new open row starts at the same timestamp with the new state,
\* and every other row is as before
C27_TransitionRule ==
  (pc = "detect") =>
    LET current == get_current_connectivity_period(rcBefore) IN
    /\ current.id = 0 =>
         /\ OneNewOpenRow
         /\ \A i \in DOMAIN rcBefore : SameRow(i)
    /\ (current.id # 0 /\ (current.is_up = 1) # is_up) =>
         /\ OneNewOpenRow
         /\ periods[current.id] = [rcBefore[current.id] EXCEPT !.ended_at = now_iso]
         /\ \A i \in DOMAIN rcBefore \ {current.id} : SameRow(i)
         /\ OpenIds(periods) = {Len(periods)}

C27_Witness ==
  /\ pc = "detect"
  /\ Len(rcBefore) = 2
  /\ Len(periods) = 3
  /\ get_current_connectivity_period(rcBefore).id = 2

\* both loops have returned or were cancelled
LoopsTerminated ==
  /\ pc = "done"
  /\ task_pc[LoopTask] = "cancelled"

\* C24: once the stop event is set both loops terminate; a loop that
\* sleeps when the stop comes leaves the sleep in that very step; after the
\* stop neither loop starts a tick; and when connectivity_loop has ended
\* its buffer is empty and every sample it held is in the store
C24_CooperativeStop ==
  /\ stop_set ~> LoopsTerminated
  /\ [][(~stop_set /\ stop_set') =>
          /\ pc = "sleep" => pc' = "finally"
          /\ task_pc[LoopTask] = "sleep" => task_pc'[LoopTask] = "cancelled"]_vars
  /\ [][stop_set => (ticks' = ticks /\ LoopRuns' = LoopRuns)]_vars
  /\ [](pc = "done" =>
          /\ pending_checks = <<>>
          /\ \A i \in DOMAIN appended : appended[i] \in Stored)

C24_Witness ==
  /\ stop_set
  /\ LoopsTerminated
  /\ batches # <<>>
  /\ Len(checks) = Len(appended)
  /\ \E i \in DOMAIN invocations : invocations[i].end = "cancelled"

\* the periods that overlap the window in time, with the filter applied
OverlapIds ==
  {i \in DOMAIN periods :
     /\ parse_dt(periods[i].started_at) < parse_dt(q_end_iso)
     /\ \/ periods[i].ended_at = NULL
        \/ parse_dt(periods[i].ended_at) > parse_dt(q_start_iso)
     /\ q_is_up = None \/ periods[i].is_up = (IF q_is_up[1] THEN 1 ELSE 0)}

\* C25: the answer of query_connectivity_periods holds exactly the periods
\* that start before the end of the window and have no end or end after its
\* start (with the is_up filter when one is given), in the order of their
\* start
C25_RangeByOverlap ==
  q_pc = "answered" =>
    /\ Len(q_result) = Cardinality(OverlapIds)
    /\ {q_result[k].started_at : k \in DOMAIN q_result}
         = {periods[i].started_at : i \in OverlapIds}
    /\ \A k, l \in DOMAIN q_result :
         k < l => parse_dt(q_result[k].started_at) <= parse_dt(q_result[l].started_at)

\* the interval the setting stood for when the running tick started
IntervalAtTickStart ==
  read_setting(IntervalSetting(cf_loop), Some(cf_at_start)).value

\* C28: in every tick of either loop the interval in use is the one the
\* setting held when the tick started, whatever was set before or since,
\* and the sleep that ends the tick is computed from it
C28_LiveReconfiguration ==
  /\ cf_pc \in {"body", "sleeping"} => cf_interval = IntervalAtTickStart
  /\ cf_pc = "sleeping" =>
       cf_sleep = seconds_until_next_aligned(HalfMillis(IntervalAtTickStart),
                                             cf_elapsed)

C28_Witness ==
  /\ cf_pc = "sleeping"
  /\ cf_loop = "speedtest_loop"
  /\ cf_ticks = 2
  /\ cf_changes = 2
  /\ cf_at_start = "2.5"
  /\ cf_setting = "5"
  /\ cf_interval = Finite(2500)

\* url mode, and no URL in the settings nor compiled in
NoUrlAnywhere ==
  /\ set_speedtest_mode \notin OoklaModes
  /\ set_speedtest_url = ""
  /\ cfg_speedtest_url = ""

\* the record of a run that was given no URL
IsUrlNotSet(r) ==
  /\ r.error = Some("speedtest_url not set (skipped)")
  /\ r.bytes_downloaded = 0 /\ r.duration_seconds = 0 /\ r.mbps = 0

\* C29 as stated: in url mode with no URL anywhere, every invocation whose
\* body has run called no strategy, persisted one record, with the error
\* "speedtest_url not set (skipped)" and zero bytes, duration and mbps, and
\* raised nothing
C29_MissingUrlRecorded ==
  NoUrlAnywhere =>
    \A i \in DOMAIN invocations :
      invocations[i].skip_due # "unknown" =>
        /\ invocations[i].strategy = 0
        /\ invocations[i].end # "raised"
        /\ Cardinality(invocations[i].records) = 1
        /\ \A r \in RecordsOf(i) : IsUrlNotSet(r)

\* C29 amended: the same for every invocation that is not skipped as
\* offline (one that is persists the "offline (skipped)" record of C18
\* instead); and the "speedtest_url not set (skipped)" record is persisted
\* in no other case
C29_MissingUrlUnlessOffline ==
  /\ NoUrlAnywhere =>
       \A i \in DOMAIN invocations :
         /\ invocations[i].strategy = 0
         /\ invocations[i].end # "raised"
         /\ invocations[i].skip_due = "no" =>
              /\ Cardinality(invocations[i].records) = 1
              /\ \A r \in RecordsOf(i) : IsUrlNotSet(r)
         /\ invocations[i].skip_due = "yes" =>
              \A r \in RecordsOf(i) : r.error = Some("offline (skipped)")
  /\ \A k \in DOMAIN speed_tests :
       speed_tests[k].error = Some("speedtest_url not set (skipped)")
         => NoUrlAnywhere

C29_Witness ==
  /\ NoUrlAnywhere
  /\ \E i \in DOMAIN invocations :
       /\ invocations[i].skip_due = "no" /\ invocations[i].end = "returned"
       /\ \E r \in RecordsOf(i) : IsUrlNotSet(r)

\* C30: every record of the speed_tests table that has an error has
\* bytes_downloaded = 0 and mbps = 0, also when the transfer failed after
\* bytes had been received
C30_ErrorRecordsZeroed ==
  \A k \in DOMAIN speed_tests :
    speed_tests[k].error # None =>
      speed_tests[k].bytes_downloaded = 0 /\ speed_tests[k].mbps = 0

\* C31: connectivity_loop leaves its while loop only by the stop signal or
\* a cancellation (the store of the model never fails): whenever the loop
\* is in its finally block or has ended, no exception of a probe, a target
\* string, a setting or a notification is what ended it
C31_OnlyStopEndsLoop ==
  pc \in {"finally", "done"} => loop_exc = NoException


\* the scheduled runs of speedtest_loop that followed a sleep
ScheduledRuns ==
  IF cf_loop = "speedtest_loop" /\ cf_run # NoRun THEN {cf_run} ELSE {}

SampleTime(c) == parse_dt(c[1])

\* C33: the store holds the samples in the order they were taken, and
\* every sample still in the buffer was taken after every stored one
C33_StoredInSamplingOrder ==
  /\ \A i, j \in DOMAIN checks :
       i < j => SampleTime(checks[i]) < SampleTime(checks[j])
  /\ \A k \in DOMAIN pending_checks : \A i \in DOMAIN checks :
       SampleTime(checks[i]) < SampleTime(pending_checks[k])


\* the points of a tick after its sample was written or buffered
AfterSample == {"rc", "rc_insert", "detect", "send", "sleep"}

\* C34: once a tick has disposed of its sample, fewer samples are pending
\* than the buffer_max of that tick, and samples are pending only while
\* the time since the last flush is below the buffer_seconds of that tick
C34_BoundedBuffering ==
  pc \in AfterSample =>
    /\ Len(pending_checks) < buffer_max
    /\ pending_checks # <<>> =>
         (now - last_flush_ts) < buffer_seconds * TicksPerSecond


\* the times of the samples whose probe has completed and whose tick has
\* written or buffered them (one sample per tick of the clock)
SamplesTaken == IF pc = "write" THEN 1..(now - 1) ELSE 1..now

\* how often the store holds the sample taken at time t
TimesStored(t) ==
  Cardinality({i \in DOMAIN checks : SampleTime(checks[i]) = t})

\* C35: no sample is in the store twice, a sample is either stored or
\* pending, and when connectivity_loop has ended every sample a completed
\* probe produced is in the store once
C35_WrittenOnce ==
  /\ \A t \in 1..now : TimesStored(t) <= 1
  /\ \A k \in DOMAIN pending_checks :
       TimesStored(SampleTime(pending_checks[k])) = 0
  /\ pc = "done" => \A t \in SamplesTaken : TimesStored(t) = 1

\* the loop has ended after write-through writes, a count flush and the
\* flush of its finally block
C35_Witness ==
  /\ pc = "done"
  /\ now = 4
  /\ Len(checks) = 4
  /\ settingChanges >= 1
  /\ Len(appended) = 3
  /\ batches = <<2, 1>>


\* a tick of this run is complete and the next one has not taken its sample
TickCompleted == pc \in {"sleep", "top", "probe"} /\ ticks >= 1

\* C36: after every completed tick the store has an open period and
\* last_is_up is the state of that period
C36_LockStep ==
  TickCompleted =>
    LET current == get_current_connectivity_period(periods) IN
    /\ current.id # 0
    /\ last_is_up = Some(current.is_up = 1)

\* the first tick after a restart found an open Up period and sampled Down
C36_Witness ==
  /\ pc = "sleep"
  /\ restarts = 1
  /\ ticks = 1
  /\ Len(periods) = 2
  /\ periods[1].is_up = 1
  /\ last_is_up = Some(FALSE)


\* C37: after every completed tick the outage-start marker is set exactly
\* when the last sample was Down, and it is then started_at of the store's
\* open Down period
C37_MarkerIffDown ==
  TickCompleted =>
    LET current == get_current_connectivity_period(periods) IN
    /\ (outage_started_at # NULL) <=> (last_is_up = Some(FALSE))
    /\ outage_started_at # NULL =>
         /\ current.id # 0 /\ current.is_up = 0
         /\ outage_started_at = current.started_at


\* a step of run_speedtest_once or speedtest_loop, a step of
\* connectivity_loop (the shutdown moves both tasks and is neither)
SpeedStep == task_pc' # task_pc /\ stop_set' = stop_set
MonitorStep == pc' # pc /\ stop_set' = stop_set

\* C38: a step of run_speedtest_once leaves the periods, the samples, the
\* settings and the state of connectivity_loop as they are; a step of
\* connectivity_loop leaves the speed-test records and the runtime as they
\* are; samples and speed-test records are only ever appended, and a
\* period row changes only by the open period getting its ended_at
C38_Independent ==
  [][/\ SpeedStep =>
          UNCHANGED <<periods, checks, set_buffer_max, set_buffer_seconds,
                      set_connect_target, set_speedtest_mode,
                      set_speedtest_url, loopVars>>
     /\ MonitorStep =>
          UNCHANGED <<speed_tests, running, running_since_iso, lock_locked,
                      lock_waiters, set_buffer_max, set_buffer_seconds,
                      set_connect_target, set_speedtest_mode,
                      set_speedtest_url>>
     /\ Len(checks') >= Len(checks)
     /\ \A i \in DOMAIN checks : checks'[i] = checks[i]
     /\ Len(speed_tests') >= Len(speed_tests)
     /\ \A i \in DOMAIN speed_tests : speed_tests'[i] = speed_tests[i]
     /\ Len(periods') >= Len(periods)
     /\ \A i \in DOMAIN periods :
          \/ periods'[i] = periods[i]
          \/ /\ i = get_current_connectivity_period(periods).id
             /\ periods'[i] # periods[i]
             /\ periods'[i] = [periods[i] EXCEPT !.ended_at = periods'[i].ended_at]]_vars

\* both activities have written: two speed-test records, samples, and a
\* period closed by the monitor while a speed test ran or after it
C38_Witness ==
  /\ Len(speed_tests) = 2
  /\ Len(periods) >= 2
  /\ periods[1].ended_at # NULL
  /\ checks # <<>>
  /\ pc = "sleep"


\* invocation i of run_speedtest_once has taken the lock, has come to its
\* end by returning or by an exception, and has released the lock
Completed(i) ==
  /\ i \in DOMAIN invocations
  /\ invocations[i].end \in {"returned", "raised"}

\* C39: every invocation of run_speedtest_once, scheduled or manual, that
\* has begun comes to its end; a task that waits for the lock gets it; the
\* lock is held only while an invocation is in its section, and it is
\* always released again
C39_LockLiveness ==
  /\ \A i \in 1..MaxSpeedEvents : (i \in DOMAIN invocations) ~> Completed(i)
  /\ \A t \in Tasks : (task_pc[t] = "waiting") ~> (task_pc[t] = "locked")
  /\ [](lock_locked => InSection # {})
  /\ lock_locked ~> ~lock_locked

\* after a run that ended by an exception the lock is held by a run whose
\* strategy is awaited, and another invocation waits for it
C39_Witness ==
  /\ \E i \in DOMAIN invocations : invocations[i].end = "raised"
  /\ \E t \in Tasks : task_pc[t] \in AwaitPcs
  /\ lock_waiters # <<>>
  /\ lock_locked

====
